---- MODULE Spec2Model ----
(***************************************************************************)
(* The K-RPC engine of mainline (src/src/rpc.rs) and the BEP-44 mutable    *)
(* item (src/src/common/mutable.rs) as a state machine.                    *)
(*                                                                         *)
(* The engine state is the struct Rpc.  Every method of Rpc is an operator *)
(* that maps an engine record (the fields of Rpc plus the datagrams sent   *)
(* and the value returned by the call) to the engine record after the      *)
(* call; an action applies one public method (get, put, tick) to the       *)
(* current state as a whole.  KrpcSocket, IterativeQuery, PutQuery,        *)
(* ClosestNodes, RoutingTable, Id and validate_immutable live in modules   *)
(* whose files are not part of the two source files; they are modelled     *)
(* from their description in spec.md and from the way rpc.rs uses them.    *)
(***************************************************************************)
EXTENDS Integers, Sequences, FiniteSets, TLC

\* ------------------------------------------------------------------ bounds

\* Remote nodes 1..MaxNodes; a node's id and its address are its number.
MaxNodes == 1
\* Requests of one body to one address that are in use at the same time are
\* numbered 0..MaxTid: a call that would need one more is not taken.
MaxTid == 1
\* Targets the user asks for are 1..MaxTargets.
MaxTargets == 1
\* A call whose dht_size_estimates_sum would pass MaxSum is not taken.
MaxSum == 4
\* The sequence numbers given to encode_signable are -MaxSeq..MaxSeq.
MaxSeq == 12
\* Where the engine probes its public address, a call that would leave
\* more than MaxInflight requests in flight is not taken.
MaxInflight == 1

\* ------------------------------------------------------- program constants

\* rpc.rs:53, scaled from 1000 so that the LRU bound is reached.
MAX_CACHED_ITERATIVE_QUERIES == 2
\* Iterative query parallelism (spec.md 4.7, alpha).
ALPHA == 3
\* Bucket size K, the number of closest nodes a find-node completion reports.
MAX_BUCKET_SIZE_K == 20

\* ------------------------------------------------------------------- basics

None == <<>>
Some(x) == <<x>>
IsSome(o) == Len(o) = 1
Unwrap(o) == o[1]

Nodes == 1..MaxNodes
UserTargets == 1..MaxTargets

\* Candidate public addresses of the engine, as remote nodes report them.
\* Addresses of remote nodes are 1..MaxNodes, so these are disjoint.
PublicAddrs == {11, 12}

\* The id the engine draws at construction, Id::random() (rpc.rs:106).
RandomId == 20

\* Id::from_ipv4(ip): a secure id bound to the address (spec.md 4.2).
Id_from_ipv4(ip) == 20 + ip
\* Id::is_valid_for_ipv4
Id_is_valid_for_ipv4(id, ip) == id = 20 + ip

RECURSIVE SetToSeq(_)
\* The elements of a set of numbers in ascending order.
SetToSeq(S) ==
    IF S = {} THEN <<>>
    ELSE LET m == CHOOSE x \in S : \A y \in S : x <= y
         IN <<m>> \o SetToSeq(S \ {m})

Range(f) == {f[i] : i \in DOMAIN f}

\* ------------------------------------------------------------ byte strings

\* A byte string is a sequence of bytes; these are the ASCII literals the
\* code formats.
Str_4_salt == <<52, 58, 115, 97, 108, 116>>
Str_3_seqi == <<51, 58, 115, 101, 113, 105>>
Str_e1_v == <<101, 49, 58, 118>>
Colon == <<58>>
Minus == <<45>>

RECURSIVE DecimalNat(_)
\* format!("{}", n) for n >= 0: the ASCII decimal digits of n.
DecimalNat(n) ==
    IF n < 10 THEN <<48 + n>>
    ELSE DecimalNat(n \div 10) \o <<48 + (n % 10)>>

\* format!("{}", n) for an i64.
Decimal(n) == IF n < 0 THEN Minus \o DecimalNat(0 - n) ELSE DecimalNat(n)

\* encode_signable where the salt is written without its length.
encode_signable_bare_salt(seq, value, salt) ==
    LET salted == IF IsSome(salt)
                  THEN Str_4_salt \o Colon \o Unwrap(salt)
                  ELSE <<>>
    IN salted \o Str_3_seqi \o Decimal(seq) \o Str_e1_v
       \o DecimalNat(Len(value)) \o Colon \o value

\* encode_signable (mutable.rs:146-158)
encode_signable(seq, value, salt) ==
    LET salted == IF IsSome(salt)
                  THEN Str_4_salt \o DecimalNat(Len(Unwrap(salt))) \o Colon
                       \o Unwrap(salt)
                  ELSE <<>>
    IN salted \o Str_3_seqi \o Decimal(seq) \o Str_e1_v
       \o DecimalNat(Len(value)) \o Colon \o value

RECURSIVE BytesToNat(_)
\* An injective numbering of the byte strings (bytes are below 128).
BytesToNat(b) ==
    IF b = <<>> THEN 0 ELSE (Head(b) + 1) + 129 * BytesToNat(Tail(b))

\* Sha1 digest as an Id: an ideal hash, distinct inputs give distinct ids,
\* and no digest is the id of a node or a plain target.
SHA1(b) == 100 + BytesToNat(b)

\* ed25519: a signature made by key k over message m verifies under k over
\* m and under nothing else.
Sign(k, m) == [by |-> k, over |-> m, len |-> 64]
\* The byte strings that decode to a point of the curve.
Ed25519Points == {<<1>>, <<2>>}
\* VerifyingKey::try_from(key).is_ok() (mutable.rs:96)
VerifyingKey_try_from(key) == key \in Ed25519Points
\* Signature::from_slice(signature).is_ok() (mutable.rs:98-99)
Signature_from_slice(sig) == sig.len = 64
\* key.verify(message, signature).is_ok() (mutable.rs:101)
Verify(key, message, sig) == sig.by = key /\ sig.over = message

\* MutableItem::target_from_key (mutable.rs:46-60)
target_from_key(public_key, salt) ==
    SHA1(public_key \o (IF IsSome(salt) THEN Unwrap(salt) ELSE <<>>))

\* from_dht_message where the signature is verified over the signable
\* without the salt.
from_dht_message_unsalted(target, key, v, seq, signature, salt, cas) ==
    IF ~VerifyingKey_try_from(key)
    THEN [ok |-> FALSE, err |-> "InvalidMutablePublicKey"]
    ELSE IF ~Signature_from_slice(signature)
    THEN [ok |-> FALSE, err |-> "InvalidMutableSignature"]
    ELSE IF ~Verify(key, encode_signable(seq, v, None), signature)
    THEN [ok |-> FALSE, err |-> "InvalidMutableSignature"]
    ELSE [ok |-> TRUE,
          item |-> [target |-> target, key |-> key, value |-> v, seq |-> seq,
                    signature |-> signature, salt |-> salt, cas |-> cas]]

\* from_dht_message where the signature is not verified.
from_dht_message_unverified(target, key, v, seq, signature, salt, cas) ==
    IF ~VerifyingKey_try_from(key)
    THEN [ok |-> FALSE, err |-> "InvalidMutablePublicKey"]
    ELSE IF ~Signature_from_slice(signature)
    THEN [ok |-> FALSE, err |-> "InvalidMutableSignature"]
    ELSE [ok |-> TRUE,
          item |-> [target |-> target, key |-> key, value |-> v, seq |-> seq,
                    signature |-> signature, salt |-> salt, cas |-> cas]]

\* MutableItem::from_dht_message (mutable.rs:87-113): Ok(item) or Err(e).
from_dht_message(target, key, v, seq, signature, salt, cas) ==
    IF ~VerifyingKey_try_from(key)
    THEN [ok |-> FALSE, err |-> "InvalidMutablePublicKey"]
    ELSE IF ~Signature_from_slice(signature)
    THEN [ok |-> FALSE, err |-> "InvalidMutableSignature"]
    ELSE IF ~Verify(key, encode_signable(seq, v, salt), signature)
    THEN [ok |-> FALSE, err |-> "InvalidMutableSignature"]
    ELSE [ok |-> TRUE,
          item |-> [target |-> target, key |-> key, value |-> v, seq |-> seq,
                    signature |-> signature, salt |-> salt, cas |-> cas]]

\* validate_immutable(v, target): the value hashes to the target
\* (spec.md 3, Immutable item).
validate_immutable(v, target) == SHA1(v) = target

\* ------------------------------------------------------------- KrpcSocket

\* The engine record: the fields of struct Rpc (rpc.rs:57-98), the list of
\* datagrams the current call has sent, and the value the call returns.
\*   socket.inflight_requests  the transaction ids of the requests sent and
\*                             neither answered nor timed out
\*   socket.server_mode        KrpcSocket::server_mode
\* A transaction id is a record [to, body, n]: the socket's rolling 16-bit
\* counter gives every request an id that differs from the ids still in
\* use (spec.md 5); which number it is does not matter to the engine, and
\* the id is written as the address and body of its request with the
\* least number n that makes it differ from the ids in use.

\* KrpcSocket::inflight(&tid)
socket_inflight(s, tid) == tid \in s.socket.inflight_requests

\* The transaction ids some put or iterative query of the engine lists.
TidsOfQueries(s) ==
    UNION ({s.iterative_queries[t].inflight_requests :
                t \in DOMAIN s.iterative_queries}
           \cup {s.put_queries[t].inflight_requests :
                t \in DOMAIN s.put_queries})

\* The transaction ids in use: in flight in the socket or listed by a query.
TidsInUse(s) == s.socket.inflight_requests \cup TidsOfQueries(s)

Tid(address, request, n) == [to |-> address, body |-> request, n |-> n]

\* The transaction id the next request to an address gets.
NextTid(s, address, request) ==
    Tid(address, request,
        CHOOSE n \in 0..(MaxTid + 1) :
            /\ n <= MaxTid => Tid(address, request, n) \notin TidsInUse(s)
            /\ \A m \in 0..(n - 1) : Tid(address, request, m) \in TidsInUse(s))

\* KrpcSocket::request(address, request) -> tid; the tid is
\* NextTid(s, address, request).
socket_request(s, address, request) ==
    [s EXCEPT !.socket.inflight_requests =
                  @ \cup {NextTid(s, address, request)},
              !.sent = Append(@, [to |-> address, y |-> "q", body |-> request])]

\* KrpcSocket::response(address, transaction_id, response)
socket_response(s, address, transaction_id, response) ==
    [s EXCEPT !.sent = Append(@, [to |-> address, y |-> "r", body |-> response,
                                  tid |-> transaction_id])]

\* KrpcSocket::error(address, transaction_id, error)
socket_error(s, address, transaction_id, error) ==
    [s EXCEPT !.sent = Append(@, [to |-> address, y |-> "e", body |-> error,
                                  tid |-> transaction_id])]

\* --------------------------------------------------------- IterativeQuery

\* A pair of the engine and of a query that is being worked on outside the
\* engine's map (a local of get, or the entry tick holds a &mut to).
Pair(s, q) == [s |-> s, q |-> q]

\* IterativeQuery::new(target, request)
IterativeQuery_new(target, request) ==
    [target |-> target,
     request |-> request,
     candidates |-> {},
     visited |-> {},
     inflight_requests |-> {},
     responders |-> {},
     responses |-> <<>>,
     address_votes |-> [a \in PublicAddrs |-> 0],
     started |-> FALSE]

\* IterativeQuery::visit(socket, address): send the query's request to an
\* address not visited yet and list its transaction id.
IterativeQuery_visit(p, address) ==
    IF address \in p.q.visited THEN p
    ELSE Pair(socket_request(p.s, address, p.q.request),
              [p.q EXCEPT !.inflight_requests =
                              @ \cup {NextTid(p.s, address, p.q.request)},
                          !.visited = @ \cup {address}])

RECURSIVE VisitAll(_, _)
\* visit for each address of a sequence, in order.
VisitAll(p, addresses) ==
    IF addresses = <<>> THEN p
    ELSE VisitAll(IterativeQuery_visit(p, Head(addresses)), Tail(addresses))

\* IterativeQuery::add_candidate(node)
IterativeQuery_add_candidate(q, node) ==
    [q EXCEPT !.candidates = @ \cup {node}]

\* IterativeQuery::add_responding_node(node): the closest-nodes set keeps one
\* entry per node id.
IterativeQuery_add_responding_node(q, node) ==
    IF \E n \in q.responders : n.id = node.id THEN q
    ELSE [q EXCEPT !.responders = @ \cup {node}]

\* IterativeQuery::add_address_vote(address)
IterativeQuery_add_address_vote(q, address) ==
    [q EXCEPT !.address_votes[address] = @ + 1]

\* IterativeQuery::response(from, response)
IterativeQuery_response(q, from, response) ==
    [q EXCEPT !.responses = Append(@, response)]

\* IterativeQuery::inflight(tid)
IterativeQuery_inflight(q, tid) == tid \in q.inflight_requests

\* IterativeQuery::best_address(): the address most responses voted for.
IterativeQuery_best_address(q) ==
    LET voted == {a \in PublicAddrs : q.address_votes[a] > 0}
    IN IF voted = {} THEN None
       ELSE Some(CHOOSE a \in voted :
                    \A b \in voted :
                        \/ q.address_votes[b] < q.address_votes[a]
                        \/ (q.address_votes[b] = q.address_votes[a] /\ a <= b))

\* The first n elements of a sequence.
Take(q, n) == SubSeq(q, 1, IF Len(q) < n THEN Len(q) ELSE n)

\* IterativeQuery::visit_closest: send to the ALPHA nearest candidates not
\* visited yet (a node's number stands for its distance to the target).
IterativeQuery_visit_closest(p) ==
    VisitAll(p, Take(SetToSeq(p.q.candidates \ p.q.visited), ALPHA))

\* IterativeQuery::start(socket)
IterativeQuery_start(p) ==
    LET v == IterativeQuery_visit_closest(p)
    IN Pair(v.s, [v.q EXCEPT !.started = TRUE])

\* Whether a query has a request the socket still waits for.
AwaitsReply(s, q) == \E tid \in q.inflight_requests : socket_inflight(s, tid)

\* IterativeQuery::tick(socket) -> is_done: keep visiting; the query is done
\* when none of its requests is in flight any more (answered or timed out).
\* The result is the pair after the tick; IterativeQuery_is_done reads it.
IterativeQuery_tick(p) == IterativeQuery_visit_closest(p)
IterativeQuery_is_done(p) == ~AwaitsReply(p.s, p.q)

\* --------------------------------------------------------------- PutQuery

\* PutQuery::new(target, request)
PutQuery_new(target, request) ==
    [target |-> target,
     request |-> request,
     inflight_requests |-> {},
     stored_at |-> 0,
     errors |-> <<>>]

\* PutQuery::started()
PutQuery_started(q) == q.inflight_requests # {}

\* The body of a store request sent to a node.
PutRequestBody(q) ==
    [request_type |-> [kind |-> "Put", target |-> q.target]]

RECURSIVE PutQuery_send(_, _)
\* The loop of PutQuery::start: one store request per node, in order.
PutQuery_send(p, nodes) ==
    IF nodes = <<>> THEN p
    ELSE PutQuery_send(
             Pair(socket_request(p.s, Head(nodes), PutRequestBody(p.q)),
                  [p.q EXCEPT !.inflight_requests =
                      @ \cup {NextTid(p.s, Head(nodes), PutRequestBody(p.q))}]),
             Tail(nodes))

\* PutQuery::start(socket, closest_nodes) -> Result<(), PutError>: an empty
\* list is the error NoClosestNodes; else the store request goes to every
\* node of the list that has a token and its transaction id is listed
\* (spec.md 4.8 step 3).  The result is [s, q, err]; the call is noted in
\* the engine's log of the current call.
PutQuery_start(p, closest_nodes) ==
    LET called == [p.s EXCEPT !.log = Append(@, [call |-> "PutQuery::start",
                                                 target |-> p.q.target,
                                                 closest_nodes |-> closest_nodes,
                                                 started |-> PutQuery_started(p.q)])]
    IN IF closest_nodes = {}
       THEN [s |-> called, q |-> p.q, err |-> Some("NoClosestNodes")]
       ELSE LET sent == PutQuery_send(
                            Pair(called, p.q),
                            SetToSeq({n.id : n \in {m \in closest_nodes : m.token}}))
            IN [s |-> sent.s, q |-> sent.q, err |-> None]

\* PutQuery::inflight(tid)
PutQuery_inflight(q, tid) == tid \in q.inflight_requests

\* PutQuery::success()
PutQuery_success(q) == [q EXCEPT !.stored_at = @ + 1]

\* PutQuery::error(error)
PutQuery_error(q, error) == [q EXCEPT !.errors = Append(@, error)]

\* PutQuery::tick(socket) -> Result<bool, PutError> as [done, err]: a query
\* that has not started is not done; a started one is done when none of its
\* requests is in flight, with success if a node stored and else the first
\* error it met, or Timeout (spec.md 4.8 step 5).
PutQuery_tick(s, q) ==
    IF q.inflight_requests = {} THEN [done |-> FALSE, err |-> None]
    ELSE IF AwaitsReply(s, q) THEN [done |-> FALSE, err |-> None]
    ELSE IF q.stored_at > 0 THEN [done |-> TRUE, err |-> None]
    ELSE [done |-> FALSE,
          err |-> Some(IF q.errors = <<>> THEN "Timeout" ELSE Head(q.errors))]

\* ------------------------------------------------ RoutingTable, ClosestNodes

\* RoutingTable::new().with_id(id)
RoutingTable_new(id) == [id |-> id, nodes |-> {}]
\* RoutingTable::add(node): the buckets hold K = 20 nodes, more than there
\* are nodes here.
RoutingTable_add(table, node) == [table EXCEPT !.nodes = @ \cup {node}]
\* RoutingTable::remove(id)
RoutingTable_remove(table, id) == [table EXCEPT !.nodes = @ \ {id}]
\* RoutingTable::closest_secure(target, ..): the K nearest nodes.
RoutingTable_closest_secure(table, target) == table.nodes
\* RoutingTable::is_empty()
RoutingTable_is_empty(table) == table.nodes = {}

\* ClosestNodes::dht_size_estimate(): a number computed from the distances
\* of the nodes of the set to the target, 0 for no node.  The distances are
\* not part of the model: the number is an input of the call, s.estimate.
ClosestNodes_dht_size_estimate(s, nodes) == IF nodes = {} THEN 0 ELSE s.estimate
\* ClosestNodes::take_until_secure(..): with no more nodes than these the
\* threshold is not met before the end of the set.
ClosestNodes_take_until_secure(nodes) == nodes

\* ---------------------------------------------------------------- LruCache

\* The cache is the sequence of its entries [key, value] from the least to
\* the most recently used.
Lru_contains(cache, key) == \E i \in DOMAIN cache : cache[i].key = key
Lru_index(cache, key) == CHOOSE i \in DOMAIN cache : cache[i].key = key
Lru_peek(cache, key) == cache[Lru_index(cache, key)].value
\* The entries without the one of a key.
Lru_without(cache, key) ==
    IF Lru_contains(cache, key)
    THEN SubSeq(cache, 1, Lru_index(cache, key) - 1)
         \o SubSeq(cache, Lru_index(cache, key) + 1, Len(cache))
    ELSE cache
\* LruCache::get(key): the cache after the call, the entry made the most
\* recently used.
Lru_get(cache, key) ==
    IF Lru_contains(cache, key)
    THEN Append(Lru_without(cache, key),
                [key |-> key, value |-> Lru_peek(cache, key)])
    ELSE cache
\* LruCache::pop_lru(): the cache after the call.
Lru_pop_lru(cache) == IF cache = <<>> THEN cache ELSE Tail(cache)
\* LruCache::put(key, value): replaces the entry of the key, or evicts the
\* least recently used entry of a full cache; the entry is the most recent.
Lru_put(cache, key, value, cap) ==
    IF Lru_contains(cache, key)
    THEN Append(Lru_without(cache, key), [key |-> key, value |-> value])
    ELSE IF Len(cache) >= cap
    THEN Append(Tail(cache), [key |-> key, value |-> value])
    ELSE Append(cache, [key |-> key, value |-> value])

\* -------------------------------------------------------------------- Rpc

\* HashMap::insert and HashMap::remove on a map held as a function.
MapInsert(f, k, v) == [x \in (DOMAIN f) \cup {k} |-> IF x = k THEN v ELSE f[x]]
MapRemove(f, k) == [x \in (DOMAIN f) \ {k} |-> f[x]]
EmptyMap == [x \in {} |-> 0]

\* Node::new(id, from).with_token(token), seen now (rpc.rs:609-610).
NodeWithToken(id) == [id |-> id, token |-> TRUE, fresh |-> TRUE]
\* Node::valid_token(): the node has a token and was seen within the
\* token rotation interval.
Node_valid_token(n) == n.token /\ n.fresh

\* Rpc::id (rpc.rs:152-154)
id(s) == s.routing_table.id

\* Rpc::server_mode (rpc.rs:181-183)
server_mode(s) == s.socket.server_mode

\* The target of a request given to get (rpc.rs:408-415): None for a
\* request that is neither FindNode, GetPeers nor GetValue.
GetTarget(request) ==
    IF request.kind \in {"FindNode", "GetPeers", "GetValue"}
    THEN Some(request.target)
    ELSE None

\* The seeding of a new query (rpc.rs:439-471): the bootstrap nodes when the
\* routing table has too few nodes, the extra nodes, then the candidates of
\* the routing table and of the cached responders of the target.
get_seed(s, query, target, extra_nodes) ==
    LET routing_table_closest ==
            RoutingTable_closest_secure(s.routing_table, target)
        p0 == Pair(s, query)
        p1 == IF routing_table_closest = {}
                 \/ Cardinality(routing_table_closest) < Cardinality(s.bootstrap)
              THEN VisitAll(p0, SetToSeq(s.bootstrap))
              ELSE p0
        p2 == IF IsSome(extra_nodes) THEN VisitAll(p1, Unwrap(extra_nodes))
              ELSE p1
        cached == IF Lru_contains(s.cached_iterative_queries, target)
                  THEN {n.id : n \in Lru_peek(s.cached_iterative_queries,
                                              target).closest_responding_nodes}
                  ELSE {}
    IN Pair([p2.s EXCEPT !.cached_iterative_queries = Lru_get(@, target)],
            [p2.q EXCEPT !.candidates = @ \cup routing_table_closest \cup cached])

\* rpc.rs:422-478: a new query for the target is built, seeded, started and
\* inserted.
get_launch(s, request, target, extra_nodes) ==
    LET query == IterativeQuery_new(target,
                                    [requester_id |-> id(s),
                                     request_type |-> request])
        started == IterativeQuery_start(get_seed(s, query, target, extra_nodes))
    IN [started.s EXCEPT
           !.iterative_queries = MapInsert(@, target, started.q),
           !.ret = None]

\* Rpc::get where the test for an active query of the target (rpc.rs:417-420)
\* is left out.
get_without_active_test(s, request, extra_nodes) ==
    IF ~IsSome(GetTarget(request)) THEN [s EXCEPT !.ret = None]
    ELSE get_launch(s, request, Unwrap(GetTarget(request)), extra_nodes)

\* Rpc::get where the early return gives no responses.
get_without_responses(s, request, extra_nodes) ==
    IF ~IsSome(GetTarget(request)) THEN [s EXCEPT !.ret = None]
    ELSE LET target == Unwrap(GetTarget(request))
         IN IF target \in DOMAIN s.iterative_queries
            THEN [s EXCEPT !.ret = Some(<<>>)]
            ELSE get_launch(s, request, target, extra_nodes)

\* Rpc::get (rpc.rs:403-479)
get(s, request, extra_nodes) ==
    IF ~IsSome(GetTarget(request)) THEN [s EXCEPT !.ret = None]
    ELSE LET target == Unwrap(GetTarget(request))
         IN IF target \in DOMAIN s.iterative_queries
            THEN [s EXCEPT !.ret = Some(s.iterative_queries[target].responses)]
            ELSE get_launch(s, request, target, extra_nodes)

\* The cached responders of a target, never usable.
put_ignoring_cache(s, target) == None

\* The cached responders a put starts from (rpc.rs:358-364): those of the
\* target's cache entry when the list is not empty and a node of it has a
\* valid token.
put_cached_closest_nodes(s, target) ==
    IF Lru_contains(s.cached_iterative_queries, target)
    THEN LET closest_nodes == Lru_peek(s.cached_iterative_queries,
                                       target).closest_responding_nodes
         IN IF closest_nodes # {}
               /\ \E n \in closest_nodes : Node_valid_token(n)
            THEN Some(closest_nodes)
            ELSE None
    ELSE None

\* The iterative GET a put without usable cached responders asks for
\* (rpc.rs:368-380).
put_get_request(request) ==
    [kind |-> "GetValue", target |-> request.target,
     salt |-> IF request.kind = "PutMutable" THEN request.salt ELSE None]

\* rpc.rs:356-385: a new put query starts from the cached responders or
\* waits for an iterative GET, and is inserted.
put_launch(s, request) ==
    LET target == request.target
        query == PutQuery_new(target, request)
        closest_nodes == put_cached_closest_nodes(s, target)
        s1 == [s EXCEPT !.cached_iterative_queries = Lru_get(@, target)]
    IN IF IsSome(closest_nodes)
       THEN LET r == PutQuery_start(Pair(s1, query), Unwrap(closest_nodes))
            IN IF IsSome(r.err)
               THEN [r.s EXCEPT !.ret = Some([error |-> Unwrap(r.err),
                                              target |-> target])]
               ELSE [r.s EXCEPT !.put_queries = MapInsert(@, target, r.q),
                                !.ret = None]
       ELSE LET g == get(s1, put_get_request(request), None)
            IN [g EXCEPT !.put_queries = MapInsert(@, target, query),
                         !.ret = None]

\* Rpc::put where the test for a put query of the target (rpc.rs:350-354)
\* is left out.
put_without_inflight_test(s, request) == put_launch(s, request)

\* Rpc::put (rpc.rs:341-386); ret is None for Ok(()) and Some(error).
put(s, request) ==
    IF request.target \in DOMAIN s.put_queries
    THEN [s EXCEPT !.ret = Some([error |-> "PutQueryIsInflight",
                                 target |-> request.target])]
    ELSE put_launch(s, request)

\* An inbound message is a record
\*   y             "q" a request, "r" a response, "e" an error
\*   tid           transaction_id
\*   read_only     the sender's read-only flag
\*   author_id     get_author_id(): Some(id) of the sender, None in an error
\*   nodes         get_closer_nodes(): Some(set of nodes) or None
\*   token         get_token() is Some: the response carries a write token
\*   requester_ip  the address the sender saw the request come from, or None
\*   body          the type-specific part: [kind, ..]

\* The put query that lists a transaction id (rpc.rs:572-575), as Some(target).
find_put_query(s, tid) ==
    LET hits == {t \in DOMAIN s.put_queries :
                    PutQuery_inflight(s.put_queries[t], tid)}
    IN IF hits = {} THEN None ELSE Some(CHOOSE t \in hits : TRUE)

\* The iterative query that lists a transaction id (rpc.rs:593-596).
find_iterative_query(s, tid) ==
    LET hits == {t \in DOMAIN s.iterative_queries :
                    IterativeQuery_inflight(s.iterative_queries[t], tid)}
    IN IF hits = {} THEN None ELSE Some(CHOOSE t \in hits : TRUE)

\* rpc.rs:577-584: what a message matched to a put query does to it.
handle_put_response(query, message) ==
    IF message.y = "r" /\ message.body.kind = "Ping" THEN PutQuery_success(query)
    ELSE IF message.y = "e" THEN PutQuery_error(query, message.body.kind)
    ELSE query

\* rpc.rs:601-617: candidates, responder and address vote of a message
\* matched to an iterative query.
note_response(query, from, message) ==
    LET q1 == IF IsSome(message.nodes)
              THEN [query EXCEPT !.candidates = @ \cup Unwrap(message.nodes)]
              ELSE query
        q2 == IF message.token
              THEN IterativeQuery_add_responding_node(q1, NodeWithToken(from))
              ELSE q1
    IN IF IsSome(message.requester_ip)
       THEN IterativeQuery_add_address_vote(q2, Unwrap(message.requester_ip))
       ELSE q2

\* The salt of a query's request (rpc.rs:656-659).
query_salt(query) ==
    IF query.request.request_type.kind = "GetValue"
    THEN query.request.request_type.salt
    ELSE None

\* The value of a message where an immutable value is taken as it comes.
response_value_unvalidated(query, message) ==
    IF message.y # "r" THEN None
    ELSE IF message.body.kind = "GetImmutable"
    THEN Some([type |-> "Immutable", v |-> message.body.v])
    ELSE None

\* rpc.rs:621-731: the value a message matched to an iterative query yields,
\* Some(Response) when the match returns one and None when it falls through.
response_value(query, message) ==
    IF message.y # "r" THEN None
    ELSE IF message.body.kind = "GetPeers"
    THEN Some([type |-> "Peers", values |-> message.body.values])
    ELSE IF message.body.kind = "GetImmutable"
    THEN IF validate_immutable(message.body.v, query.target)
         THEN Some([type |-> "Immutable", v |-> message.body.v])
         ELSE None
    ELSE IF message.body.kind = "GetMutable"
    THEN LET r == from_dht_message(query.target, message.body.k,
                                   message.body.v, message.body.seq,
                                   message.body.sig, query_salt(query), None)
         IN IF r.ok THEN Some([type |-> "Mutable", item |-> r.item]) ELSE None
    ELSE None

\* handle_response where the sender of a message matched to a put query is
\* added to the routing table as well.
handle_response_adding_storers(s, from, message) ==
    IF message.read_only THEN [s EXCEPT !.ret = None]
    ELSE IF IsSome(find_put_query(s, message.tid))
    THEN [s EXCEPT
             !.put_queries[Unwrap(find_put_query(s, message.tid))] =
                 handle_put_response(@, message),
             !.routing_table =
                 IF IsSome(message.author_id)
                 THEN RoutingTable_add(@, from)
                 ELSE @,
             !.ret = None]
    ELSE IF IsSome(find_iterative_query(s, message.tid))
    THEN LET target == Unwrap(find_iterative_query(s, message.tid))
             query == note_response(s.iterative_queries[target], from, message)
             value == response_value(query, message)
         IN IF IsSome(value)
            THEN [s EXCEPT
                     !.iterative_queries[target] =
                         IterativeQuery_response(query, from, Unwrap(value)),
                     !.ret = Some(<<target, Unwrap(value)>>)]
            ELSE [s EXCEPT
                     !.iterative_queries[target] = query,
                     !.routing_table =
                         IF IsSome(message.author_id)
                         THEN RoutingTable_add(@, from)
                         ELSE @,
                     !.ret = None]
    ELSE [s EXCEPT !.ret = None]

\* handle_response where the sender of a message that matches no query is
\* added to the routing table.
handle_response_adding_strangers(s, from, message) ==
    IF message.read_only THEN [s EXCEPT !.ret = None]
    ELSE IF IsSome(find_put_query(s, message.tid))
    THEN [s EXCEPT
             !.put_queries[Unwrap(find_put_query(s, message.tid))] =
                 handle_put_response(@, message),
             !.ret = None]
    ELSE IF IsSome(find_iterative_query(s, message.tid))
    THEN LET target == Unwrap(find_iterative_query(s, message.tid))
             query == note_response(s.iterative_queries[target], from, message)
             value == response_value(query, message)
         IN IF IsSome(value)
            THEN [s EXCEPT
                     !.iterative_queries[target] =
                         IterativeQuery_response(query, from, Unwrap(value)),
                     !.ret = Some(<<target, Unwrap(value)>>)]
            ELSE [s EXCEPT
                     !.iterative_queries[target] = query,
                     !.routing_table =
                         IF IsSome(message.author_id)
                         THEN RoutingTable_add(@, from)
                         ELSE @,
                     !.ret = None]
    ELSE [s EXCEPT
             !.routing_table =
                 IF IsSome(message.author_id)
                 THEN RoutingTable_add(@, from)
                 ELSE @,
             !.ret = None]

\* handle_response where a message flagged read_only is handled like any
\* other.
handle_response_reading_read_only(s, from, message) ==
    IF IsSome(find_put_query(s, message.tid))
    THEN [s EXCEPT
             !.put_queries[Unwrap(find_put_query(s, message.tid))] =
                 handle_put_response(@, message),
             !.ret = None]
    ELSE IF IsSome(find_iterative_query(s, message.tid))
    THEN LET target == Unwrap(find_iterative_query(s, message.tid))
             query == note_response(s.iterative_queries[target], from, message)
             value == response_value(query, message)
         IN IF IsSome(value)
            THEN [s EXCEPT
                     !.iterative_queries[target] =
                         IterativeQuery_response(query, from, Unwrap(value)),
                     !.ret = Some(<<target, Unwrap(value)>>)]
            ELSE [s EXCEPT
                     !.iterative_queries[target] = query,
                     !.routing_table =
                         IF IsSome(message.author_id)
                         THEN RoutingTable_add(@, from)
                         ELSE @,
                     !.ret = None]
    ELSE [s EXCEPT !.ret = None]

\* Rpc::handle_response (rpc.rs:565-743); ret is Option<(Id, Response)>.
handle_response(s, from, message) ==
    IF message.read_only THEN [s EXCEPT !.ret = None]
    ELSE IF IsSome(find_put_query(s, message.tid))
    THEN [s EXCEPT
             !.put_queries[Unwrap(find_put_query(s, message.tid))] =
                 handle_put_response(@, message),
             !.ret = None]
    ELSE IF IsSome(find_iterative_query(s, message.tid))
    THEN LET target == Unwrap(find_iterative_query(s, message.tid))
             query == note_response(s.iterative_queries[target], from, message)
             value == response_value(query, message)
         IN IF IsSome(value)
            THEN [s EXCEPT
                     !.iterative_queries[target] =
                         IterativeQuery_response(query, from, Unwrap(value)),
                     !.ret = Some(<<target, Unwrap(value)>>)]
            ELSE [s EXCEPT
                     !.iterative_queries[target] = query,
                     !.routing_table =
                         IF IsSome(message.author_id)
                         THEN RoutingTable_add(@, from)
                         ELSE @,
                     !.ret = None]
    ELSE [s EXCEPT !.ret = None]

\* Rpc::ping (rpc.rs:785-793)
ping(s, address) ==
    socket_request(s, address, [requester_id |-> id(s),
                                request_type |-> [kind |-> "Ping"]])

\* Rpc::populate (rpc.rs:778-783)
populate(s) == get(s, [kind |-> "FindNode", target |-> id(s)], None)

\* check_address_votes_from_iterative_query where the elected address is
\* pinged also when it is the current estimate.
check_address_votes_always_pinging(s, query) ==
    LET best == IterativeQuery_best_address(query)
    IN IF IsSome(best)
       THEN [ping([s EXCEPT !.firewalled = TRUE], Unwrap(best))
                EXCEPT !.public_address = best]
       ELSE s

\* Rpc::check_address_votes_from_iterative_query (rpc.rs:800-819)
check_address_votes_from_iterative_query(s, query) ==
    LET best == IterativeQuery_best_address(query)
    IN IF IsSome(best)
       THEN LET new_address == Unwrap(best)
                s1 == IF s.public_address = None
                         \/ new_address # Unwrap(s.public_address)
                      THEN ping([s EXCEPT !.firewalled = TRUE], new_address)
                      ELSE s
            IN [s1 EXCEPT !.public_address = Some(new_address)]
       ELSE s

\* Rpc::cache_iterative_query (rpc.rs:821-879); ret is the list of the
\* closest responding nodes.
cache_iterative_query(s, query) ==
    LET full == Len(s.cached_iterative_queries) >= MAX_CACHED_ITERATIVE_QUERIES
        popped == IF full /\ s.cached_iterative_queries # <<>>
                  THEN Head(s.cached_iterative_queries).value.dht_size_estimate
                  ELSE 0
        cache == IF full THEN Lru_pop_lru(s.cached_iterative_queries)
                 ELSE s.cached_iterative_queries
        dht_size_estimate == ClosestNodes_dht_size_estimate(s, query.candidates)
        closest_responding_nodes == ClosestNodes_take_until_secure(query.responders)
    IN [s EXCEPT
           !.dht_size_estimates_sum = (@ - popped) + dht_size_estimate,
           !.cached_iterative_queries =
               Lru_put(cache, query.target,
                       [closest_responding_nodes |-> closest_responding_nodes,
                        dht_size_estimate |-> dht_size_estimate,
                        is_find_node |->
                            query.request.request_type.kind = "FindNode"],
                       MAX_CACHED_ITERATIVE_QUERIES),
           !.ret = closest_responding_nodes]

\* Rpc::handle_iterative_query (rpc.rs:795-798)
handle_iterative_query(s, query) ==
    cache_iterative_query(check_address_votes_from_iterative_query(s, query),
                          query)

\* rpc.rs:494-530: the dispatch of what the server handler returned for a
\* request: [y, body, extra_nodes], y = "e" an error, "r" a response, "q" a
\* follow-up request.
dispatch_handled(s, from, transaction_id, handled) ==
    IF handled.y = "e" THEN socket_error(s, from, transaction_id, handled.body)
    ELSE IF handled.y = "r"
    THEN socket_response(s, from, transaction_id, handled.body)
    ELSE IF handled.body.kind = "Ping" THEN s
    ELSE IF handled.body.kind = "Put" THEN put(s, handled.body.put_request_type)
    ELSE get(s, handled.body, handled.extra_nodes)

\* check_own_ping where the routing table is kept when the id is renewed.
check_own_ping_keeping_table(s, from, is_ping) ==
    IF IsSome(s.public_address) /\ from = Unwrap(s.public_address) /\ is_ping
    THEN LET s1 == [s EXCEPT !.firewalled = FALSE]
             ipv4 == Unwrap(s.public_address)
         IN IF ~Id_is_valid_for_ipv4(id(s1), ipv4)
            THEN LET new_id == Id_from_ipv4(ipv4)
                     g == get(s1, [kind |-> "FindNode", target |-> new_id], None)
                 IN [g EXCEPT !.routing_table.id = new_id]
            ELSE s1
    ELSE s

\* rpc.rs:533-562: a ping from the engine's own public address clears
\* firewalled and renews an id that is not valid for the address.
check_own_ping(s, from, is_ping) ==
    IF IsSome(s.public_address) /\ from = Unwrap(s.public_address) /\ is_ping
    THEN LET s1 == [s EXCEPT !.firewalled = FALSE]
             ipv4 == Unwrap(s.public_address)
         IN IF ~Id_is_valid_for_ipv4(id(s1), ipv4)
            THEN LET new_id == Id_from_ipv4(ipv4)
                     g == get(s1, [kind |-> "FindNode", target |-> new_id], None)
                 IN [g EXCEPT !.routing_table = RoutingTable_new(new_id)]
            ELSE s1
    ELSE s

\* handle_request where the ping from the public address is looked at in
\* server mode only.
handle_request_server_only(s, from, transaction_id, request_specific, handled) ==
    LET is_ping == request_specific.request_type.kind = "Ping"
    IN IF server_mode(s)
       THEN [check_own_ping(dispatch_handled(s, from, transaction_id, handled),
                            from, is_ping) EXCEPT !.ret = None]
       ELSE [s EXCEPT !.ret = None]

\* handle_request where the ping from the public address is looked at before
\* the server handler's result is dispatched.
handle_request_checking_first(s, from, transaction_id, request_specific, handled) ==
    LET is_ping == request_specific.request_type.kind = "Ping"
        s1 == check_own_ping(s, from, is_ping)
    IN [(IF server_mode(s)
         THEN dispatch_handled(s1, from, transaction_id, handled)
         ELSE s1) EXCEPT !.ret = None]

\* handle_request where the server handler's result is dispatched in client
\* mode as well.
handle_request_always_serving(s, from, transaction_id, request_specific, handled) ==
    LET is_ping == request_specific.request_type.kind = "Ping"
        s1 == dispatch_handled(s, from, transaction_id, handled)
    IN [check_own_ping(s1, from, is_ping) EXCEPT !.ret = None]

\* Rpc::handle_request (rpc.rs:483-563); handled is the result of
\* server.handle_request for this request.
handle_request(s, from, transaction_id, request_specific, handled) ==
    LET is_ping == request_specific.request_type.kind = "Ping"
        s1 == IF server_mode(s)
              THEN dispatch_handled(s, from, transaction_id, handled)
              ELSE s
    IN [check_own_ping(s1, from, is_ping) EXCEPT !.ret = None]

\* The line the engine logs when it switches to server mode (rpc.rs:756).
SwitchingToServerMode ==
    [call |-> "info", target |-> None,
     line |-> "Adaptive mode: switching to server mode"]

RECURSIVE maintain_nodes(_, _, _, _)
\* rpc.rs:767-773: drop the stale nodes of the table and ping those due.
maintain_nodes(s, nodes, stale, due) ==
    IF nodes = <<>> THEN s
    ELSE LET node == Head(nodes)
             s1 == IF node \in stale
                   THEN [s EXCEPT !.routing_table = RoutingTable_remove(@, node)]
                   ELSE IF node \in due THEN ping(s, node)
                   ELSE s
         IN maintain_nodes(s1, Tail(nodes), stale, due)

\* periodic_node_maintainance where the switch to server mode does not look
\* at firewalled.
periodic_node_maintainance_unfirewalled(s, stale, due) ==
    LET s1 == IF RoutingTable_is_empty(s.routing_table) THEN populate(s) ELSE s
        s2 == IF s1.last_table_refresh = "long_ago"
              THEN populate(
                       [s1 EXCEPT
                           !.last_table_refresh = "now",
                           !.socket.server_mode = TRUE,
                           !.log =
                               IF ~server_mode(s1)
                               THEN Append(@, SwitchingToServerMode) ELSE @])
              ELSE s1
    IN IF s2.last_table_ping = "long_ago"
       THEN maintain_nodes([s2 EXCEPT !.last_table_ping = "now"],
                           SetToSeq(s2.routing_table.nodes), stale, due)
       ELSE s2

\* periodic_node_maintainance where the switch to server mode also asks for
\* a node in the routing table.
periodic_node_maintainance_populated(s, stale, due) ==
    LET s1 == IF RoutingTable_is_empty(s.routing_table) THEN populate(s) ELSE s
        s2 == IF s1.last_table_refresh = "long_ago"
              THEN populate(
                       [s1 EXCEPT
                           !.last_table_refresh = "now",
                           !.socket.server_mode =
                               IF ~server_mode(s1) /\ ~s1.firewalled
                                  /\ ~RoutingTable_is_empty(s1.routing_table)
                               THEN TRUE ELSE @,
                           !.log =
                               IF ~server_mode(s1) /\ ~s1.firewalled
                                  /\ ~RoutingTable_is_empty(s1.routing_table)
                               THEN Append(@, SwitchingToServerMode) ELSE @])
              ELSE s1
    IN IF s2.last_table_ping = "long_ago"
       THEN maintain_nodes([s2 EXCEPT !.last_table_ping = "now"],
                           SetToSeq(s2.routing_table.nodes), stale, due)
       ELSE s2

\* periodic_node_maintainance where an empty routing table alone starts no
\* lookup of the engine's id.
periodic_node_maintainance_unpopulated(s, stale, due) ==
    LET s2 == IF s.last_table_refresh = "long_ago"
              THEN populate(
                       [s EXCEPT
                           !.last_table_refresh = "now",
                           !.socket.server_mode =
                               IF ~server_mode(s) /\ ~s.firewalled
                               THEN TRUE ELSE @,
                           !.log =
                               IF ~server_mode(s) /\ ~s.firewalled
                               THEN Append(@, SwitchingToServerMode) ELSE @])
              ELSE s
    IN IF s2.last_table_ping = "long_ago"
       THEN maintain_nodes([s2 EXCEPT !.last_table_ping = "now"],
                           SetToSeq(s2.routing_table.nodes), stale, due)
       ELSE s2

\* Rpc::periodic_node_maintainance (rpc.rs:745-775); stale and due are the
\* nodes for which is_stale() and should_ping() hold at this time.
periodic_node_maintainance(s, stale, due) ==
    LET s1 == IF RoutingTable_is_empty(s.routing_table) THEN populate(s) ELSE s
        s2 == IF s1.last_table_refresh = "long_ago"
              THEN populate(
                       [s1 EXCEPT
                           !.last_table_refresh = "now",
                           !.socket.server_mode =
                               IF ~server_mode(s1) /\ ~s1.firewalled
                               THEN TRUE ELSE @,
                           !.log =
                               IF ~server_mode(s1) /\ ~s1.firewalled
                               THEN Append(@, SwitchingToServerMode) ELSE @])
              ELSE s1
    IN IF s2.last_table_ping = "long_ago"
       THEN maintain_nodes([s2 EXCEPT !.last_table_ping = "now"],
                           SetToSeq(s2.routing_table.nodes), stale, due)
       ELSE s2

\* rpc.rs:222-231: the put queries found done, in the order of the map.
RECURSIVE tick_put_queries(_, _)
tick_put_queries(s, ids) ==
    IF ids = <<>> THEN <<>>
    ELSE LET r == PutQuery_tick(s, s.put_queries[Head(ids)])
             rest == tick_put_queries(s, Tail(ids))
         IN IF IsSome(r.err) THEN <<[id |-> Head(ids), error |-> r.err]>> \o rest
            ELSE IF r.done THEN <<[id |-> Head(ids), error |-> None]>> \o rest
            ELSE rest

\* rpc.rs:236-262: tick every iterative query; acc is [s, done_get_queries,
\* done_find_node_queries].
RECURSIVE tick_iterative_queries(_, _)
tick_iterative_queries(acc, ids) ==
    IF ids = <<>> THEN acc
    ELSE LET qid == Head(ids)
             p == IterativeQuery_tick(Pair(acc.s, acc.s.iterative_queries[qid]))
             s1 == [p.s EXCEPT !.iterative_queries[qid] = p.q]
             is_done == IterativeQuery_is_done(p)
             is_find_node == p.q.request.request_type.kind = "FindNode"
             closest_nodes == Take(SetToSeq(p.q.candidates), MAX_BUCKET_SIZE_K)
         IN tick_iterative_queries(
                [s |-> s1,
                 done_get_queries |->
                     IF is_done /\ ~is_find_node
                     THEN Append(acc.done_get_queries, qid)
                     ELSE acc.done_get_queries,
                 done_find_node_queries |->
                     IF is_done /\ is_find_node
                     THEN Append(acc.done_find_node_queries,
                                 [id |-> qid, closest_nodes |-> closest_nodes])
                     ELSE acc.done_find_node_queries],
                Tail(ids))

\* rpc.rs:267-280: remove each finished GET, cache it, and start the put
\* query of its target; acc is [s, done_put_queries].
RECURSIVE cleanup_done_get_queries(_, _)
cleanup_done_get_queries(acc, ids) ==
    IF ids = <<>> THEN acc
    ELSE LET qid == Head(ids)
             s0 == acc.s
         IN IF qid \notin DOMAIN s0.iterative_queries
            THEN cleanup_done_get_queries(acc, Tail(ids))
            ELSE LET query == s0.iterative_queries[qid]
                     s1 == handle_iterative_query(
                               [s0 EXCEPT !.iterative_queries = MapRemove(@, qid)],
                               query)
                     closest_responding_nodes == s1.ret
                 IN IF qid \in DOMAIN s1.put_queries
                    THEN LET r == PutQuery_start(Pair(s1, s1.put_queries[qid]),
                                                 closest_responding_nodes)
                         IN cleanup_done_get_queries(
                                [s |-> [r.s EXCEPT !.put_queries[qid] = r.q],
                                 done_put_queries |->
                                     IF IsSome(r.err)
                                     THEN Append(acc.done_put_queries,
                                                 [id |-> qid, error |-> r.err])
                                     ELSE acc.done_put_queries],
                                Tail(ids))
                    ELSE cleanup_done_get_queries(
                             [s |-> s1,
                              done_put_queries |-> acc.done_put_queries],
                             Tail(ids))

\* rpc.rs:282-284: remove the put queries found done.
RECURSIVE remove_done_put_queries(_, _)
remove_done_put_queries(s, done) ==
    IF done = <<>> THEN s
    ELSE remove_done_put_queries(
             [s EXCEPT !.put_queries = MapRemove(@, Head(done).id)], Tail(done))

\* rpc.rs:286-291: remove each finished find-node query, check its address
\* votes and cache it.
RECURSIVE cleanup_done_find_node_queries(_, _)
cleanup_done_find_node_queries(s, done) ==
    IF done = <<>> THEN s
    ELSE LET qid == Head(done).id
         IN IF qid \notin DOMAIN s.iterative_queries
            THEN cleanup_done_find_node_queries(s, Tail(done))
            ELSE LET query == s.iterative_queries[qid]
                     s1 == [s EXCEPT !.iterative_queries = MapRemove(@, qid)]
                 IN cleanup_done_find_node_queries(
                        handle_iterative_query(
                            check_address_votes_from_iterative_query(s1, query),
                            query),
                        Tail(done))

\* KrpcSocket::recv_from(): the datagram read, if any, as [s, message]: a
\* request, or a response or error whose transaction id and sender are
\* those of a request in flight, which is then no longer in flight; any other
\* datagram is dropped (spec.md 4.5).
socket_recv_from(s, datagram) ==
    IF ~IsSome(datagram) THEN [s |-> s, message |-> None]
    ELSE LET m == Unwrap(datagram)
         IN IF m.y = "q" THEN [s |-> s, message |-> datagram]
            ELSE IF m.tid \in s.socket.inflight_requests /\ m.tid.to = m.from
            THEN [s |-> [s EXCEPT !.socket.inflight_requests = @ \ {m.tid}],
                  message |-> datagram]
            ELSE [s |-> s, message |-> None]

\* rpc.rs:296-307: read one datagram and handle it; ret is query_response.
tick_receive(s, datagram, handled) ==
    LET r == socket_recv_from(s, datagram)
    IN IF ~IsSome(r.message) THEN [r.s EXCEPT !.ret = None]
       ELSE LET message == Unwrap(r.message)
            IN IF message.y = "q"
               THEN handle_request(r.s, message.from, message.tid,
                                   message.body, handled)
               ELSE handle_response(r.s, message.from, message)

\* rpc.rs:216-291: the queries are ticked and those found done are cleaned
\* up; the result is [s, done_get_queries, done_put_queries,
\* done_find_node_queries], s the engine before the periodic maintenance.
tick_cleanup(s0, estimate) ==
    LET s == [s0 EXCEPT !.estimate = estimate]
        put_ids == SetToSeq(DOMAIN s.put_queries)
        done_put_1 == tick_put_queries(s, put_ids)
        ticked == tick_iterative_queries(
                      [s |-> s, done_get_queries |-> <<>>,
                       done_find_node_queries |-> <<>>],
                      SetToSeq(DOMAIN s.iterative_queries))
        cleaned == cleanup_done_get_queries(
                       [s |-> ticked.s, done_put_queries |-> done_put_1],
                       ticked.done_get_queries)
        s4 == remove_done_put_queries(cleaned.s, cleaned.done_put_queries)
        s5 == cleanup_done_find_node_queries(s4, ticked.done_find_node_queries)
    IN [s |-> s5,
        done_get_queries |-> ticked.done_get_queries,
        done_put_queries |-> cleaned.done_put_queries,
        done_find_node_queries |-> ticked.done_find_node_queries]

\* rpc.rs:293-314: after the cleanup, the periodic maintenance, then one
\* datagram is read and handled, and the report is returned; done is the
\* result of tick_cleanup.
tick_report(done, stale, due, datagram, handled) ==
    LET s6 == periodic_node_maintainance(done.s, stale, due)
        s7 == tick_receive(s6, datagram, handled)
    IN [s7 EXCEPT !.ret = [done_get_queries |-> done.done_get_queries,
                           done_put_queries |-> done.done_put_queries,
                           done_find_node_queries |->
                               done.done_find_node_queries,
                           query_response |-> @]]

\* Rpc::tick where the datagram is read and handled before the queries are
\* ticked and the done ones cleaned up.
tick_receiving_first(s0, stale, due, datagram, handled, estimate) ==
    LET s1 == tick_receive(s0, datagram, handled)
        done == tick_cleanup(s1, estimate)
        s6 == periodic_node_maintainance(done.s, stale, due)
    IN [s6 EXCEPT !.ret = [done_get_queries |-> done.done_get_queries,
                           done_put_queries |-> done.done_put_queries,
                           done_find_node_queries |->
                               done.done_find_node_queries,
                           query_response |-> s1.ret]]

\* Rpc::tick (rpc.rs:215-315); ret is the RpcTickReport.  The inputs are what
\* the call reads from outside: the nodes of the table that are stale and
\* due for a ping at this time, the datagram waiting at the socket, and
\* the server handler's result for it, and the size estimate computed from
\* the nodes of a query that is cached.
tick(s0, stale, due, datagram, handled, estimate) ==
    tick_report(tick_cleanup(s0, estimate), stale, due, datagram, handled)

\* ------------------------------------------------------------------ state

VARIABLES
    bootstrap,                  \* Rpc::bootstrap, the set of addresses
    socket,                     \* Rpc::socket: [inflight_requests, server_mode]
    routing_table,              \* Rpc::routing_table: [id, nodes]
    last_table_refresh,         \* "long_ago": more than REFRESH_TABLE_INTERVAL ago
    last_table_ping,            \* "long_ago": more than PING_TABLE_INTERVAL ago
    cached_iterative_queries,   \* Rpc::cached_iterative_queries
    iterative_queries,          \* Rpc::iterative_queries
    put_queries,                \* Rpc::put_queries
    dht_size_estimates_sum,     \* Rpc::dht_size_estimates_sum
    public_address,             \* Rpc::public_address
    firewalled,                 \* Rpc::firewalled
    sent,                       \* the datagrams the last call sent
    log,                        \* the PutQuery::start calls of the last call
    last_call                   \* the last call: its name, arguments and result

vars == <<bootstrap, socket, routing_table, last_table_refresh, last_table_ping,
          cached_iterative_queries, iterative_queries, put_queries,
          dht_size_estimates_sum, public_address, firewalled, sent, log,
          last_call>>

\* The engine at the start of a call.
Engine ==
    [bootstrap |-> bootstrap,
     socket |-> socket,
     routing_table |-> routing_table,
     last_table_refresh |-> last_table_refresh,
     last_table_ping |-> last_table_ping,
     cached_iterative_queries |-> cached_iterative_queries,
     iterative_queries |-> iterative_queries,
     put_queries |-> put_queries,
     dht_size_estimates_sum |-> dht_size_estimates_sum,
     public_address |-> public_address,
     firewalled |-> firewalled,
     sent |-> <<>>,
     log |-> <<>>,
     estimate |-> 0,
     ret |-> None]

\* The bounds of the model hold of an engine record.
Bounded(s) ==
    /\ \A tid \in TidsInUse(s) : tid.n <= MaxTid
    /\ s.dht_size_estimates_sum <= MaxSum

\* The state after a call that ended with engine record s.
Becomes(s, call) ==
    /\ Bounded(s)
    /\ bootstrap' = s.bootstrap
    /\ socket' = s.socket
    /\ routing_table' = s.routing_table
    /\ last_table_refresh' = s.last_table_refresh
    /\ last_table_ping' = s.last_table_ping
    /\ cached_iterative_queries' = s.cached_iterative_queries
    /\ iterative_queries' = s.iterative_queries
    /\ put_queries' = s.put_queries
    /\ dht_size_estimates_sum' = s.dht_size_estimates_sum
    /\ public_address' = s.public_address
    /\ firewalled' = s.firewalled
    /\ sent' = s.sent
    /\ log' = s.log
    /\ last_call' = [call EXCEPT !.ret = s.ret]

\* Rpc::new (rpc.rs:102-147) for a configuration [bootstrap, public_ip,
\* server_mode].
new(config) ==
    [bootstrap |-> config.bootstrap,
     socket |-> [inflight_requests |-> {}, server_mode |-> config.server_mode],
     routing_table |->
         RoutingTable_new(IF IsSome(config.public_ip)
                          THEN Id_from_ipv4(Unwrap(config.public_ip))
                          ELSE RandomId),
     last_table_refresh |-> "now",
     last_table_ping |-> "now",
     cached_iterative_queries |-> <<>>,
     iterative_queries |-> EmptyMap,
     put_queries |-> EmptyMap,
     dht_size_estimates_sum |-> 0,
     public_address |-> None,
     firewalled |-> TRUE,
     sent |-> <<>>,
     log |-> <<>>,
     estimate |-> 0,
     ret |-> None]

\* The configurations an engine is built with.
Configs ==
    [bootstrap : {{}, {1}}, public_ip : {None, Some(11)}, server_mode : BOOLEAN]

InitWith(configs) ==
    \E config \in configs :
        LET s == new(config)
        IN /\ bootstrap = s.bootstrap
           /\ socket = s.socket
           /\ routing_table = s.routing_table
           /\ last_table_refresh = s.last_table_refresh
           /\ last_table_ping = s.last_table_ping
           /\ cached_iterative_queries = s.cached_iterative_queries
           /\ iterative_queries = s.iterative_queries
           /\ put_queries = s.put_queries
           /\ dht_size_estimates_sum = s.dht_size_estimates_sum
           /\ public_address = s.public_address
           /\ firewalled = s.firewalled
           /\ sent = <<>>
           /\ log = <<>>
           /\ last_call = [op |-> "new", target |-> None, ret |-> None]

\* ----------------------------------------------------------------- inputs

\* The salts of mutable items.
Salts == {None, Some(<<115>>)}

\* A response or an error with the envelope fields given.
Reply(r, y, body, read_only, author, nodes, token, ip) ==
    [y |-> y, tid |-> r, from |-> r.to, read_only |-> read_only,
     author_id |-> author, nodes |-> nodes, token |-> token,
     requester_ip |-> ip, body |-> body]

\* The replies a node may send to the request r in flight: a pong, a pong
\* of a read-only node, a list of nodes, a token with no value, a value
\* with a token, or an error.
Replies(r, values, ips) ==
    {Reply(r, "r", [kind |-> "Ping"], ro, Some(r.to), None, FALSE, ip) :
         ro \in BOOLEAN, ip \in ips}
    \cup {Reply(r, "r", [kind |-> "FindNode"], FALSE, Some(r.to), Some({n}),
                FALSE, None) : n \in Nodes}
    \cup {Reply(r, "r", [kind |-> "NoValues"], FALSE, Some(r.to), None, TRUE,
                None)}
    \cup {Reply(r, "r", body, FALSE, Some(r.to), None, TRUE, None) :
              body \in values}
    \cup {Reply(r, "e", [kind |-> "e203"], FALSE, None, None, FALSE, None)}

\* A request from an address.
Request(from, kind) ==
    [y |-> "q", tid |-> Tid(from, [kind |-> kind], 0), from |-> from,
     read_only |-> FALSE,
     author_id |-> Some(from), nodes |-> None, token |-> FALSE,
     requester_ip |-> None,
     body |-> [requester_id |-> from, request_type |-> [kind |-> kind]]]

\* What may wait at the socket when tick reads it: nothing, a reply to a
\* request in flight, a reply to no request in flight, or a request.
Datagrams(values, ips, requesters, kinds) ==
    {None}
    \cup {Some(m) : m \in UNION {Replies(r, values, ips) :
                                    r \in socket.inflight_requests}}
    \cup {Some(Reply(Tid(1, [kind |-> "Ping"], MaxTid + 1), "r",
                     [kind |-> "Ping"], FALSE, Some(1), None, FALSE, None))}
    \cup {Some(Request(from, kind)) : from \in requesters, kind \in kinds}

\* What the server handler may return for a request (spec.md 4.12): an
\* error, a response, or a follow-up request.
HandledError == [y |-> "e", body |-> [kind |-> "e203"], extra_nodes |-> None]
HandledResponse == [y |-> "r", body |-> [kind |-> "Ping"], extra_nodes |-> None]
HandledPing == [y |-> "q", body |-> [kind |-> "Ping"], extra_nodes |-> None]
HandledPut(targets) ==
    {[y |-> "q",
      body |-> [kind |-> "Put",
                put_request_type |-> [kind |-> "AnnouncePeer", target |-> t]],
      extra_nodes |-> None] : t \in targets}
HandledGet(targets) ==
    {[y |-> "q", body |-> [kind |-> "GetPeers", target |-> t],
      extra_nodes |-> Some(<<n>>)] : t \in targets, n \in Nodes}

\* ---------------------------------------------------------------- actions

\* A call of Rpc::get.
Get(requests, extras) ==
    \E request \in requests, extra_nodes \in extras :
        Becomes(get(Engine, request, extra_nodes),
                [op |-> "get", target |-> GetTarget(request), ret |-> None])

\* A call of Rpc::put.
Put(requests) ==
    \E request \in requests :
        Becomes(put(Engine, request),
                [op |-> "put", target |-> Some(request.target), ret |-> None])

\* A call of Rpc::tick.
Tick(datagrams, handlers, estimates) ==
    \E datagram \in datagrams :
    \E estimate \in estimates :
    \E handled \in IF IsSome(datagram) /\ Unwrap(datagram).y = "q"
                   THEN handlers
                   ELSE {[y |-> "q", body |-> [kind |-> "Ping"],
                          extra_nodes |-> None]} :
    \E stale \in IF last_table_ping = "long_ago"
                 THEN SUBSET routing_table.nodes ELSE {{}} :
    \E due \in IF last_table_ping = "long_ago"
               THEN SUBSET (routing_table.nodes \ stale) ELSE {{}} :
        Becomes(tick(Engine, stale, due, datagram, handled, estimate),
                [op |-> "tick", target |-> None, ret |-> None])

\* A call of Rpc::tick, noted with the datagram it read and with what the
\* server handler returned for it.
TickOn(datagrams, handlers, estimates) ==
    \E datagram \in datagrams :
    \E estimate \in estimates :
    \E handled \in IF IsSome(datagram) /\ Unwrap(datagram).y = "q"
                   THEN handlers
                   ELSE {[y |-> "q", body |-> [kind |-> "Ping"],
                          extra_nodes |-> None]} :
    \E stale \in IF last_table_ping = "long_ago"
                 THEN SUBSET routing_table.nodes ELSE {{}} :
    \E due \in IF last_table_ping = "long_ago"
               THEN SUBSET (routing_table.nodes \ stale) ELSE {{}} :
        Becomes(tick(Engine, stale, due, datagram, handled, estimate),
                [op |-> "tick", target |-> None, ret |-> None,
                 datagram |-> datagram, handled |-> handled])

\* A step of the world around the engine leaves the engine's own fields.
World(call) ==
    /\ sent' = <<>>
    /\ log' = <<>>
    /\ last_call' = call
    /\ UNCHANGED <<bootstrap, routing_table, iterative_queries, put_queries,
                   dht_size_estimates_sum, public_address, firewalled>>

\* A request in flight passes its timeout: the socket no longer holds it.
Timeout ==
    \E r \in socket.inflight_requests :
        /\ socket' = [socket EXCEPT !.inflight_requests = @ \ {r}]
        /\ World([op |-> "timeout", target |-> None, ret |-> None])
        /\ UNCHANGED <<last_table_refresh, last_table_ping,
                       cached_iterative_queries>>

\* Time passes one of the maintenance intervals.
Elapse ==
    /\ \/ last_table_refresh = "now" /\ last_table_refresh' = "long_ago"
          /\ UNCHANGED last_table_ping
       \/ last_table_ping = "now" /\ last_table_ping' = "long_ago"
          /\ UNCHANGED last_table_refresh
    /\ World([op |-> "elapse", target |-> None, ret |-> None])
    /\ UNCHANGED <<socket, cached_iterative_queries>>

\* Time passes the token rotation interval: the tokens of the cached nodes
\* are no longer valid.
TokensExpire ==
    /\ \E i \in DOMAIN cached_iterative_queries :
           \E n \in cached_iterative_queries[i].value.closest_responding_nodes :
               n.fresh
    /\ cached_iterative_queries' =
           [i \in DOMAIN cached_iterative_queries |->
               [cached_iterative_queries[i] EXCEPT
                   !.value.closest_responding_nodes =
                       {[n EXCEPT !.fresh = FALSE] : n \in @}]]
    /\ World([op |-> "tokens_expire", target |-> None, ret |-> None])
    /\ UNCHANGED <<socket, last_table_refresh, last_table_ping>>

\* ----------------------------------------------------------- specification

\* The engine of a server node with no bootstrap node, used by a caller.
Init == InitWith([bootstrap : {{}}, public_ip : {None}, server_mode : {TRUE}])

UserGet ==
    Get({[kind |-> "FindNode", target |-> t] : t \in UserTargets}
        \cup {[kind |-> "GetValue", target |-> t, salt |-> None] :
                  t \in UserTargets}
        \cup {[kind |-> "Ping"]},
        {None} \cup {Some(<<n>>) : n \in Nodes})

UserPut == Put({[kind |-> "PutImmutable", target |-> t] : t \in UserTargets})

EngineTick ==
    Tick(Datagrams({[kind |-> "GetPeers", values |-> <<>>]}, {None}, {1},
                   {"Ping"}),
         {HandledResponse} \cup HandledPut(UserTargets)
             \cup HandledGet(UserTargets),
         {0})

Next == UserGet \/ UserPut \/ EngineTick \/ Timeout \/ TokensExpire

Spec == Init /\ [][Next]_vars

\* Every request in flight passes its timeout.
TimeoutAll ==
    /\ socket.inflight_requests # {}
    /\ socket' = [socket EXCEPT !.inflight_requests = {}]
    /\ World([op |-> "timeout", target |-> None, ret |-> None])
    /\ UNCHANGED <<last_table_refresh, last_table_ping,
                   cached_iterative_queries>>

\* The caller looks up nodes and values and stores values while the loop
\* that owns the engine keeps calling tick and every request is answered or
\* times out.
FindNode ==
    Get({[kind |-> "FindNode", target |-> t] : t \in UserTargets}
        \cup {[kind |-> "GetValue", target |-> t, salt |-> None] :
                  t \in UserTargets},
        {None} \cup {Some(<<n>>) : n \in Nodes})

LoopTick ==
    Tick(Datagrams({}, {None}, {}, {}), {HandledPing}, {0})

FairNext == FindNode \/ UserPut \/ LoopTick \/ Timeout \/ TimeoutAll

\* The requests in flight keep timing out (weak fairness of TimeoutAll: a
\* request is answered or it is in flight until all time out), and the loop
\* keeps calling tick: infinitely many steps are calls of tick.
FairSpec ==
    /\ Init /\ [][FairNext]_vars
    /\ WF_vars(TimeoutAll)
    /\ []<><<LoopTick>>_vars

\* ---------------------------------------------------- looking up records

\* The caller looks up immutable and mutable records; the nodes answer with
\* values that hash to the target or not, and with mutable items under
\* well-formed and malformed keys whose signatures are made by either key
\* over the item or over another sequence number or salt, or are malformed.
ItemValue == <<1>>
RecordKeys == Ed25519Points \cup {<<3>>}
RecordTargets == {target_from_key(<<1>>, None)}

Signatures ==
    {Sign(k, encode_signable(1, ItemValue, salt)) :
         k \in Ed25519Points, salt \in Salts}
    \cup {Sign(<<1>>, encode_signable(2, ItemValue, None)),
          [by |-> <<1>>, over |-> encode_signable(1, ItemValue, None),
           len |-> 63]}

RecordBodies ==
    {[kind |-> "GetImmutable", v |-> v] : v \in {<<1>>, <<2>>}}
    \cup {[kind |-> "GetMutable", k |-> k, v |-> ItemValue, seq |-> 1,
           sig |-> sig] : k \in RecordKeys, sig \in Signatures}

GetRecord ==
    Get({[kind |-> "GetValue", target |-> t, salt |-> salt] :
             t \in RecordTargets, salt \in Salts},
        {Some(<<1>>)})

RecordTick ==
    Tick(Datagrams(RecordBodies, {None}, {}, {}), {HandledPing}, {0})

RecordNext == GetRecord \/ RecordTick \/ Timeout

SpecRecords == Init /\ [][RecordNext]_vars

\* The same lookups, each tick noted with the datagram it read.
RecordTickOn ==
    TickOn(Datagrams(RecordBodies, {None}, {}, {}), {HandledPing}, {0})

ValidationNext == GetRecord \/ RecordTickOn \/ Timeout

SpecValidation == Init /\ [][ValidationNext]_vars

\* ------------------------------------------- public address and modes

\* An engine with one bootstrap node, built with or without a public ip, in
\* client (adaptive) or in server mode.  The nodes report the address they
\* saw a request come from; pings and other requests arrive from the nodes
\* and from the addresses reported; the maintenance intervals pass.
ModeConfigs ==
    [bootstrap : {{1}}, public_ip : {None, Some(11)}, server_mode : BOOLEAN]

InitModes == InitWith(ModeConfigs)

\* The requests in flight after the step are within the bound.
FewInflight == Cardinality(socket'.inflight_requests) <= MaxInflight

ModeGet ==
    /\ Get({[kind |-> "GetPeers", target |-> t] : t \in UserTargets}, {None})
    /\ FewInflight

\* The replies of a node to a request in flight: each reports the address
\* it saw the request come from, or none, and carries a write token when
\* the request is a GET.
ModeReplies(r) ==
    {Reply(r, "r",
           [kind |-> IF r.body.request_type.kind = "GetPeers"
                     THEN "NoValues" ELSE "FindNode"],
           FALSE, Some(r.to), None,
           r.body.request_type.kind = "GetPeers", ip) :
         ip \in {None} \cup {Some(a) : a \in PublicAddrs}}

\* What may wait at the socket: nothing, a reply of a node, or a ping or
\* another request from one of the addresses reported.
ModeDatagrams ==
    {None}
    \cup {Some(m) : m \in UNION {ModeReplies(r) :
                                    r \in {x \in socket.inflight_requests :
                                               x.to \in Nodes}}}
    \cup {Some(Request(from, kind)) :
              from \in PublicAddrs, kind \in {"Ping", "FindNode"}}

ModeTick == TickOn(ModeDatagrams, {HandledResponse}, {0}) /\ FewInflight

\* More than REFRESH_TABLE_INTERVAL passes since the last refresh.
RefreshDue ==
    /\ last_table_refresh = "now"
    /\ last_table_refresh' = "long_ago"
    /\ World([op |-> "elapse", target |-> None, ret |-> None])
    /\ UNCHANGED <<socket, last_table_ping, cached_iterative_queries>>

ModeNext == ModeGet \/ ModeTick \/ RefreshDue \/ TimeoutAll

SpecModes == InitModes /\ [][ModeNext]_vars

\* ------------------------------------------------- the order within a tick

\* The caller looks up and stores values while nodes answer, requests time
\* out, and requests arrive for which the server handler asks for a lookup
\* or a store of its own; each tick is noted with the datagram it read.
OrderGet ==
    Get({[kind |-> "GetValue", target |-> t, salt |-> None] :
             t \in UserTargets},
        {Some(<<n>>) : n \in Nodes})

OrderTick ==
    TickOn(Datagrams({[kind |-> "GetPeers", values |-> <<>>]}, {None}, {1},
                     {"Ping"}),
           HandledPut(UserTargets) \cup HandledGet(UserTargets), {0})

OrderNext == OrderGet \/ UserPut \/ OrderTick \/ TimeoutAll

SpecOrder == Init /\ [][OrderNext]_vars

\* ------------------------------------------------------ encode_signable

\* b"Hello world!" and b"foobar" (mutable.rs:176, 182).
HelloWorld == <<72, 101, 108, 108, 111, 32, 119, 111, 114, 108, 100, 33>>
Foobar == <<102, 111, 111, 98, 97, 114>>

SignableSeqs == (0 - MaxSeq)..MaxSeq
SignableValues == {<<>>, ItemValue, HelloWorld}
SignableSalts == {None, Some(<<>>), Some(<<115>>), Some(Foobar)}

\* A call of encode_signable, noted with its arguments and its result.
EncodeSignable ==
    \E seq \in SignableSeqs, value \in SignableValues, salt \in SignableSalts :
        /\ World([op |-> "encode_signable", target |-> None,
                  seq |-> seq, value |-> value, salt |-> salt,
                  ret |-> encode_signable(seq, value, salt)])
        /\ UNCHANGED <<socket, last_table_refresh, last_table_ping,
                       cached_iterative_queries>>

SpecSignable == Init /\ [][EncodeSignable]_vars

\* ------------------------------------------------------- inbound requests

\* An engine in client or in server mode whose nodes report the address they
\* saw its requests come from; pings and other requests arrive from those
\* addresses, and the server handler answers with an error or a response,
\* or asks for a ping, a put or a lookup of its own.
ServerTick ==
    /\ TickOn(ModeDatagrams,
              {HandledError, HandledResponse, HandledPing}
                  \cup HandledPut(UserTargets) \cup HandledGet(UserTargets),
              {0})
    /\ Cardinality(socket'.inflight_requests) <= MaxInflight + 1

ServerNext == ModeGet \/ ServerTick \/ TimeoutAll

SpecServer == InitModes /\ [][ServerNext]_vars

\* ------------------------------------------- the upkeep of the routing table

\* A server node with one bootstrap node and no caller: the loop calls tick,
\* the nodes answer or the requests time out, and the intervals of the table
\* refresh and of the table ping pass; at a table ping any node may be
\* stale or due.  Each finished query with candidates has the size estimate 1.
InitMaintenance ==
    InitWith([bootstrap : {{1}}, public_ip : {None}, server_mode : {TRUE}])

MaintenanceTick ==
    TickOn(Datagrams({}, {None}, {1}, {"Ping"}), {HandledResponse}, {1})

MaintenanceNext == MaintenanceTick \/ Elapse \/ TimeoutAll

SpecMaintenance == InitMaintenance /\ [][MaintenanceNext]_vars

\* --------------------------------------------------------------- properties

\* The queries of the two maps that a step leaves in place and untouched.
KeepsQueries ==
    /\ \A t \in DOMAIN iterative_queries :
           /\ t \in DOMAIN iterative_queries'
           /\ iterative_queries'[t] = iterative_queries[t]
    /\ \A t \in DOMAIN put_queries :
           /\ t \in DOMAIN put_queries'
           /\ put_queries'[t] = put_queries[t]

\* Each map holds its queries under their own targets.
KeyedByTarget ==
    /\ \A t \in DOMAIN iterative_queries : iterative_queries[t].target = t
    /\ \A t \in DOMAIN put_queries : put_queries[t].target = t

\* C1: at any time there is at most one iterative query and at most one put
\* query per target (each map holds one query per key, and the key is the
\* query's target), and a call of get or put leaves every query that was
\* active before the call in place and unchanged.
C1_OneQueryPerTarget ==
    /\ [](KeyedByTarget)
    /\ [][last_call'.op \in {"get", "put"} => KeepsQueries]_vars

\* C1 happens: get was called for a target with an active iterative query
\* while a put query for the target was active too.
C1_Witness ==
    /\ last_call.op = "get"
    /\ IsSome(last_call.target)
    /\ IsSome(last_call.ret)
    /\ Unwrap(last_call.target) \in DOMAIN put_queries
    /\ Unwrap(last_call.target) \in DOMAIN iterative_queries

\* The fields of the engine.
engine == <<bootstrap, socket, routing_table, last_table_refresh,
            last_table_ping, cached_iterative_queries, iterative_queries,
            put_queries, dht_size_estimates_sum, public_address, firewalled>>

\* The step is a call of put for the target t.
PutOf(t) == last_call'.op = "put" /\ last_call'.target = Some(t)

\* The step is a call of get for the target t.
GetOf(t) == last_call'.op = "get" /\ last_call'.target = Some(t)

\* The targets of the calls.
Targets == UserTargets \cup {RandomId}

\* C2: a call of put for a target that has a put query returns
\* PutQueryIsInflight(target), sends no datagram and leaves every field of
\* the engine as it was: no iterative query is launched and the put query
\* is untouched.
C2_PutInflightChangesNothing ==
    [][\A t \in Targets :
          PutOf(t) /\ t \in DOMAIN put_queries
          => /\ last_call'.ret = Some([error |-> "PutQueryIsInflight",
                                       target |-> t])
             /\ sent' = <<>>
             /\ UNCHANGED engine]_vars

\* C2 happens: put was refused for a target that has a put query and no
\* iterative query.
C2_Witness ==
    /\ last_call.op = "put"
    /\ IsSome(last_call.ret)
    /\ Unwrap(last_call.ret).error = "PutQueryIsInflight"
    /\ Unwrap(last_call.target) \in DOMAIN put_queries
    /\ Unwrap(last_call.target) \notin DOMAIN iterative_queries

\* C3: a call of get for a FindNode, GetPeers or GetValue request whose
\* target has an active iterative query returns the responses of that
\* query, sends nothing and leaves both maps as they were; for a target
\* without one it returns None and leaves a started iterative query for
\* the target in the map (also when an earlier query for the target has
\* completed and been removed).
C3_GetReturnsOrLaunches ==
    [][\A t \in Targets :
          GetOf(t)
          => IF t \in DOMAIN iterative_queries
             THEN /\ last_call'.ret = Some(iterative_queries[t].responses)
                  /\ sent' = <<>>
                  /\ iterative_queries' = iterative_queries
                  /\ put_queries' = put_queries
             ELSE /\ last_call'.ret = None
                  /\ t \in DOMAIN iterative_queries'
                  /\ iterative_queries'[t].started]_vars

\* C3 happens: a get for a target whose earlier query has completed (the
\* cache holds its entry) returned None and launched a new query that sent
\* to a node.
C3_Witness ==
    /\ last_call.op = "get"
    /\ IsSome(last_call.target)
    /\ last_call.ret = None
    /\ Lru_contains(cached_iterative_queries, Unwrap(last_call.target))
    /\ Unwrap(last_call.target) \in DOMAIN iterative_queries
    /\ sent # <<>>

\* The cached responders of the target t, and whether one of them carries
\* a valid token.
CachedResponders(t) ==
    IF \E i \in DOMAIN cached_iterative_queries :
           cached_iterative_queries[i].key = t
    THEN LET i == CHOOSE i \in DOMAIN cached_iterative_queries :
                      cached_iterative_queries[i].key = t
         IN cached_iterative_queries[i].value.closest_responding_nodes
    ELSE {}
UsableCache(t) == \E n \in CachedResponders(t) : n.token /\ n.fresh

\* The store requests among the datagrams of the current call.
StoreRequests(datagrams) ==
    {i \in DOMAIN datagrams :
        datagrams[i].y = "q" /\ datagrams[i].body.request_type.kind = "Put"}

\* C4: when the cache holds responders for T of which one carries a valid
\* token, a new put(T) returns Ok, has sent its store requests to cached
\* responders when it returns, and has launched no iterative query.
C4_PutStartsFromCache ==
    [][\A t \in Targets :
          PutOf(t) /\ t \notin DOMAIN put_queries /\ UsableCache(t)
          => /\ last_call'.ret = None
             /\ t \in DOMAIN put_queries'
             /\ PutQuery_started(put_queries'[t])
             /\ StoreRequests(sent') = DOMAIN sent'
             /\ sent' # <<>>
             /\ \A i \in DOMAIN sent' :
                    sent'[i].to \in {n.id : n \in CachedResponders(t)}
             /\ iterative_queries' = iterative_queries]_vars

\* C4 happens: a put was started from the cache while no iterative query
\* for its target was active.
C4_Witness ==
    /\ last_call.op = "put"
    /\ last_call.ret = None
    /\ StoreRequests(sent) # {}
    /\ Unwrap(last_call.target) \notin DOMAIN iterative_queries

\* The calls of PutQuery::start for the target t in the log of a call.
StartsOf(calls, t) ==
    {i \in DOMAIN calls :
        calls[i].call = "PutQuery::start" /\ calls[i].target = t}

\* The put query of t is pending: registered and not started.
Pending(t) == t \in DOMAIN put_queries /\ ~PutQuery_started(put_queries[t])

\* C5: a put for T without usable cached responders sends no store
\* request, registers the put as pending and leaves an iterative GetValue
\* query for T active; the start of a pending put is called in the tick
\* that reports the iterative GET of T done, with the responders that tick
\* caches for T, and in no other step.
C5_PendingPutWaitsForGetValue ==
    [][\A t \in Targets :
          /\ PutOf(t) /\ t \notin DOMAIN put_queries /\ ~UsableCache(t)
             => /\ StoreRequests(sent') = {}
                /\ StartsOf(log', t) = {}
                /\ t \in DOMAIN put_queries'
                /\ ~PutQuery_started(put_queries'[t])
                /\ t \in DOMAIN iterative_queries'
                /\ iterative_queries'[t].request.request_type.kind = "GetValue"
          /\ Pending(t) /\ last_call'.op = "tick"
             => IF \E i \in DOMAIN last_call'.ret.done_get_queries :
                       last_call'.ret.done_get_queries[i] = t
                THEN \E i \in StartsOf(log', t) :
                         /\ ~log'[i].started
                         /\ log'[i].closest_nodes =
                                LET c == cached_iterative_queries'
                                    k == CHOOSE k \in DOMAIN c : c[k].key = t
                                IN c[k].value.closest_responding_nodes
                ELSE StartsOf(log', t) = {}
          /\ Pending(t) /\ last_call'.op # "tick"
             => StartsOf(log', t) = {}]_vars

\* C7: the target of a put query appears in done_put_queries once: no
\* report of a tick lists a target twice, and a report lists only targets
\* whose put query was alive before the tick and has not been reported.
C7_PutSurfacedOnce ==
    [][last_call'.op = "tick"
       => LET done == last_call'.ret.done_put_queries
          IN /\ \A i, j \in DOMAIN done : done[i].id = done[j].id => i = j
             /\ \A i \in DOMAIN done : done[i].id \in DOMAIN put_queries]_vars

\* C6: every put that returned Ok is reported in done_put_queries of a
\* later tick, when tick keeps being called and every request is answered
\* or times out, whatever other calls of get and put are made.
C6_PutEventuallyReported ==
    \A t \in UserTargets :
        (last_call.op = "put" /\ last_call.target = Some(t)
             /\ last_call.ret = None)
        ~> (last_call.op = "tick"
               /\ \E i \in DOMAIN last_call.ret.done_put_queries :
                      last_call.ret.done_put_queries[i].id = t)

\* The responses the engine holds in its queries, each with the query that
\* recorded it, and the response the last tick emitted with the query it
\* was matched to (the query is in the map when tick returns: a response
\* is handled after the done queries are removed).
Accepted ==
    UNION {{[query |-> iterative_queries[t], response |-> r] :
                r \in Range(iterative_queries[t].responses)} :
           t \in DOMAIN iterative_queries}
    \cup {[query |-> iterative_queries[e[1]], response |-> e[2]] :
              e \in IF last_call.op = "tick"
                    THEN Range(last_call.ret.query_response)
                    ELSE {}}
AcceptedOf(type) == {a \in Accepted : a.response.type = type}

\* C8: every mutable item in the responses of a query or in the
\* query_response of a tick has a well-formed key and a signature that
\* verifies under that key over encode_signable(seq, value, salt) with the
\* salt of the query's request; no call of from_dht_message with a
\* malformed key or with a signature that does not verify gives an item.
C8_MutableSignatureVerifies ==
    /\ \A a \in AcceptedOf("Mutable") :
           LET item == a.response.item
           IN /\ item.key \in Ed25519Points
              /\ item.signature.len = 64
              /\ item.signature.by = item.key
              /\ item.signature.over =
                     encode_signable(item.seq, item.value, query_salt(a.query))
    /\ \A t \in RecordTargets, k \in RecordKeys, sig \in Signatures,
          salt \in Salts :
           from_dht_message(t, k, ItemValue, 1, sig, salt, None).ok
           => /\ k \in Ed25519Points
              /\ sig = Sign(k, encode_signable(1, ItemValue, salt))

\* C8 happens: a query with a salt holds a mutable item.
C8_Witness ==
    \E a \in AcceptedOf("Mutable") :
        IsSome(query_salt(a.query))

\* C9: every mutable item in the responses of a query or in the
\* query_response of a tick has the target SHA1(key || salt) of its own key
\* and salt.
C9_MutableTargetFromKey ==
    \A a \in AcceptedOf("Mutable") :
        a.response.item.target =
            target_from_key(a.response.item.key, a.response.item.salt)

\* C10: every immutable value in the responses of a query for T or in the
\* query_response of a tick for T hashes to T, and a GetImmutable response
\* whose value does not hash to the target of the matched query is
\* neither recorded nor emitted.
C10_ImmutableHashesToTarget ==
    /\ \A a \in AcceptedOf("Immutable") : SHA1(a.response.v) = a.query.target
    /\ \A t \in DOMAIN iterative_queries, v \in {<<1>>, <<2>>} :
           SHA1(v) # t
           => response_value(iterative_queries[t],
                             [y |-> "r",
                              body |-> [kind |-> "GetImmutable", v |-> v]])
              = None

\* C10 happens: a query holds an immutable value.
C10_Witness == AcceptedOf("Immutable") # {}

\* The record of a response does not pass the validation of a query: an
\* immutable value that does not hash to the target, or a mutable item
\* whose key is no point of the curve or whose signature is malformed or
\* does not verify over the signable with the query's salt.
FailsValidation(query, message) ==
    /\ message.y = "r"
    /\ \/ /\ message.body.kind = "GetImmutable"
          /\ SHA1(message.body.v) # query.target
       \/ /\ message.body.kind = "GetMutable"
          /\ \/ message.body.k \notin Ed25519Points
             \/ message.body.sig.len # 64
             \/ message.body.sig.by # message.body.k
             \/ message.body.sig.over #
                    encode_signable(message.body.seq, message.body.v,
                                    query_salt(query))

\* The step is a tick that reads a response which the socket passes on and
\* which is matched to the iterative query of t, and the record of the
\* response fails validation.
HandlesInvalidRecordFor(t) ==
    /\ last_call'.op = "tick"
    /\ IsSome(last_call'.datagram)
    /\ LET message == Unwrap(last_call'.datagram)
       IN /\ message.y = "r"
          /\ ~message.read_only
          /\ message.tid \in socket.inflight_requests
          /\ message.tid \in iterative_queries[t].inflight_requests
          /\ FailsValidation(iterative_queries[t], message)

\* C11: a tick that handles a response whose record fails validation
\* leaves the responders of the matched query as they were, also when the
\* response carries a write token.
C11_InvalidRecordNoResponder ==
    [][\A t \in DOMAIN iterative_queries :
          HandlesInvalidRecordFor(t)
          => /\ t \in DOMAIN iterative_queries'
             /\ iterative_queries'[t].responders =
                    iterative_queries[t].responders]_vars

\* C12: a tick that handles a response whose record fails validation
\* reports no query_response, appends nothing to the responses of the
\* matched query, and leaves the query active.
C12_InvalidRecordDropped ==
    [][\A t \in DOMAIN iterative_queries :
          HandlesInvalidRecordFor(t)
          => /\ last_call'.ret.query_response = None
             /\ t \in DOMAIN iterative_queries'
             /\ iterative_queries'[t].responses =
                    iterative_queries[t].responses
             /\ iterative_queries'[t].target = t]_vars

\* C12 happens: the last tick handled a mutable item that fails validation
\* for a query that is still active, and added its sender to the table.
C12_Witness ==
    /\ last_call.op = "tick"
    /\ IsSome(last_call.datagram)
    /\ last_call.ret.query_response = None
    /\ \E t \in DOMAIN iterative_queries :
           LET message == Unwrap(last_call.datagram)
           IN /\ message.y = "r"
              /\ message.body.kind = "GetMutable"
              /\ message.tid \in iterative_queries[t].inflight_requests
              /\ message.from \in routing_table.nodes
              /\ FailsValidation(iterative_queries[t], message)

\* The engine is as Rpc::new builds it for a configuration.
Constructed(config) ==
    /\ last_call.op = "new"
    /\ bootstrap = new(config).bootstrap
    /\ socket = new(config).socket
    /\ routing_table = new(config).routing_table

\* C13: an engine built with public_ip set to ip has that ip as its
\* public_address.
C13_ConfiguredPublicAddress ==
    \A config \in ModeConfigs :
        Constructed(config) /\ IsSome(config.public_ip)
        => public_address = config.public_ip

\* The line of the switch to server mode is in the log of the step.
SwitchLogged(calls) == \E i \in DOMAIN calls : calls[i] = SwitchingToServerMode

\* C14: server_mode never goes from true to false; it goes from false to
\* true only in a tick that finds the refresh interval passed and the
\* engine not firewalled, at the start of the tick and when the
\* maintenance runs; no step taken while firewalled changes it.
C14_ServerModeSwitch ==
    [][/\ socket.server_mode => socket'.server_mode
       /\ ~socket.server_mode /\ socket'.server_mode
          => /\ last_call'.op = "tick"
             /\ last_table_refresh = "long_ago"
             /\ last_table_refresh' = "now"
             /\ ~firewalled
             /\ ~tick_cleanup(Engine, 0).s.firewalled
             /\ SwitchLogged(log')
       /\ firewalled => socket'.server_mode = socket.server_mode]_vars

\* C14 happens: the last tick switched an engine that knows its public
\* address and is not firewalled to server mode.
C14_Witness ==
    /\ SwitchLogged(log)
    /\ socket.server_mode
    /\ ~firewalled
    /\ IsSome(public_address)

\* C15: a tick of an engine in client mode that finds the refresh interval
\* passed while firewalled is false returns in server mode.
C15_AdaptiveSwitch ==
    [][/\ last_call'.op = "tick"
       /\ last_table_refresh = "long_ago"
       /\ ~socket.server_mode
       /\ ~tick_cleanup(Engine, 0).s.firewalled
       => /\ socket'.server_mode
          /\ last_table_refresh' = "now"]_vars

\* C15 happens: the last tick found a find-node query done, the refresh
\* interval passed and the engine not firewalled, and returned in server
\* mode.
C15_Witness ==
    /\ last_call.op = "tick"
    /\ last_call.ret.done_find_node_queries # <<>>
    /\ SwitchLogged(log)
    /\ socket.server_mode
    /\ last_table_refresh = "now"

\* The step is a tick that reads a ping request sent from the address that
\* is the engine's public address when the request is handled (nothing in
\* the handling of a request changes public_address).
OwnPing ==
    /\ last_call'.op = "tick"
    /\ IsSome(last_call'.datagram)
    /\ LET message == Unwrap(last_call'.datagram)
       IN /\ message.y = "q"
          /\ message.body.request_type.kind = "Ping"
          /\ public_address' = Some(message.from)

\* C16: firewalled is true at construction; a step clears it only if it is
\* a tick that handles a ping request from the engine's public address,
\* and every such tick returns with firewalled false, in client mode as in
\* server mode.
C16_FirewalledClearedByOwnPing ==
    /\ [](last_call.op = "new" => firewalled)
    /\ [][/\ firewalled /\ ~firewalled' => OwnPing
          /\ OwnPing => ~firewalled']_vars

\* C16 happens: the last tick of an engine in client mode handled a ping
\* from the public address and left the engine not firewalled.
C16_Witness ==
    /\ last_call.op = "tick"
    /\ IsSome(last_call.datagram)
    /\ Unwrap(last_call.datagram).y = "q"
    /\ Unwrap(last_call.datagram).body.request_type.kind = "Ping"
    /\ public_address = Some(Unwrap(last_call.datagram).from)
    /\ ~socket.server_mode
    /\ ~firewalled

\* The pings to an address among the datagrams of a call.
PingsTo(datagrams, address) ==
    {i \in DOMAIN datagrams :
        /\ datagrams[i].y = "q"
        /\ datagrams[i].to = address
        /\ datagrams[i].body.request_type.kind = "Ping"}

\* The iterative queries a tick reports done.
DoneIterative(report) ==
    Range(report.done_get_queries)
    \cup {e.id : e \in Range(report.done_find_node_queries)}

\* The number of pings a call has sent to each candidate public address.
PingCount(datagrams) ==
    [a \in PublicAddrs |-> Cardinality(PingsTo(datagrams, a))]

\* What the election of a query does to an engine: s is the engine before
\* and r the engine after its address votes are checked.
ElectionDone(query, s, r) ==
    LET best == IterativeQuery_best_address(query)
    IN IF ~IsSome(best)
       THEN /\ r.public_address = s.public_address
            /\ r.firewalled = s.firewalled
            /\ PingCount(r.sent) = PingCount(s.sent)
       ELSE IF s.public_address = best
       THEN /\ r.public_address = best
            /\ r.firewalled = s.firewalled
            /\ PingCount(r.sent) = PingCount(s.sent)
       ELSE /\ r.public_address = best
            /\ r.firewalled
            /\ PingCount(r.sent) =
                   [PingCount(s.sent) EXCEPT ![Unwrap(best)] = @ + 1]

\* C19: a tick that finds one iterative query done, a GET or a find-node,
\* leaves the engine, when the periodic maintenance begins, as the election
\* of that query has it: with another address elected than the estimate,
\* or with no estimate, firewalled is true, one ping went to the address
\* and the address is the estimate; with the estimate elected again or no
\* address elected, firewalled is as before and no ping went out; and the
\* estimate the tick returns with is the one of the election.
C19_AddressElection ==
    [][\A t \in DOMAIN iterative_queries :
          /\ last_call'.op = "tick"
          /\ DoneIterative(last_call'.ret) = {t}
          => LET done == tick_cleanup(Engine, 0).s
             IN /\ ElectionDone(iterative_queries[t], Engine, done)
                /\ public_address' = done.public_address
                /\ PingCount(sent') = PingCount(done.sent)]_vars

\* C19 happens: the last tick found a GET done that elected an address
\* which was not the engine's estimate, pinged it and made it the estimate
\* of a firewalled engine.
C19_Witness ==
    /\ last_call.op = "tick"
    /\ last_call.ret.done_get_queries # <<>>
    /\ last_call.ret.done_find_node_queries = <<>>
    /\ IsSome(public_address)
    /\ PingsTo(sent, Unwrap(public_address)) # {}
    /\ firewalled

\* C20: a tick that handles a ping from the engine's public address while
\* the id is not valid for the address returns with the id made from the
\* address, an empty routing table of that id, and an active find_node
\* query for the id; with an id that is valid for the address it leaves
\* the id, and adds no node to and takes none from the table beyond what
\* the maintenance of the tick removes.
C20_IdRenewedOnOwnPing ==
    [][OwnPing
       => LET address == Unwrap(public_address')
          IN IF ~Id_is_valid_for_ipv4(routing_table.id, address)
             THEN /\ routing_table'.id # routing_table.id
                  /\ Id_is_valid_for_ipv4(routing_table'.id, address)
                  /\ routing_table'.nodes = {}
                  /\ routing_table'.id \in DOMAIN iterative_queries'
                  /\ LET query == iterative_queries'[routing_table'.id]
                     IN /\ query.target = routing_table'.id
                        /\ query.request.request_type.kind = "FindNode"
                        /\ query.started
             ELSE /\ routing_table'.id = routing_table.id
                  /\ routing_table'.nodes \subseteq routing_table.nodes
                  /\ last_table_ping = "now"
                     => routing_table' = routing_table]_vars

\* C20 happens: the last tick handled a ping from the public address of an
\* engine that had nodes in its table, renewed the id and sent the requests
\* of the find_node query for it.
C20_Witness ==
    /\ last_call.op = "tick"
    /\ IsSome(last_call.datagram)
    /\ Unwrap(last_call.datagram).y = "q"
    /\ Unwrap(last_call.datagram).body.request_type.kind = "Ping"
    /\ public_address = Some(Unwrap(last_call.datagram).from)
    /\ routing_table.nodes = {}
    /\ routing_table.id \in DOMAIN iterative_queries
    /\ iterative_queries[routing_table.id].request.requester_id
           # routing_table.id
    /\ iterative_queries[routing_table.id].visited # {}

\* The decimal digits of a number below 100, most significant first.
Digits(n) == IF n < 10 THEN <<48 + n>> ELSE <<48 + (n \div 10), 48 + (n % 10)>>

\* "4:salt" <len> ":" <salt> for a salt, then "3:seqi" <seq> "e1:v" <len>
\* ":" <value>, the numbers in decimal.
Signable(seq, value, salt) ==
    (IF salt = None THEN <<>>
     ELSE <<52, 58, 115, 97, 108, 116>> \o Digits(Len(salt[1])) \o <<58>>
          \o salt[1])
    \o <<51, 58, 115, 101, 113, 105>>
    \o (IF seq < 0 THEN <<45>> \o Digits(0 - seq) ELSE Digits(seq))
    \o <<101, 49, 58, 118>> \o Digits(Len(value)) \o <<58>> \o value

\* C17: encode_signable(seq, value, salt) is the bytes "4:salt" + length of
\* the salt + ":" + salt when there is a salt, then "3:seqi" + seq + "e1:v"
\* + length of the value + ":" + value, and nothing else; for (4, "Hello
\* world!", None) it is "3:seqi4e1:v12:Hello world!" and with the salt
\* "foobar" it is "4:salt6:foobar3:seqi4e1:v12:Hello world!".
C17_EncodeSignableBytes ==
    /\ encode_signable(4, HelloWorld, None) =
           <<51, 58, 115, 101, 113, 105, 52, 101, 49, 58, 118, 49, 50, 58,
             72, 101, 108, 108, 111, 32, 119, 111, 114, 108, 100, 33>>
    /\ encode_signable(4, HelloWorld, Some(Foobar)) =
           <<52, 58, 115, 97, 108, 116, 54, 58, 102, 111, 111, 98, 97, 114,
             51, 58, 115, 101, 113, 105, 52, 101, 49, 58, 118, 49, 50, 58,
             72, 101, 108, 108, 111, 32, 119, 111, 114, 108, 100, 33>>
    /\ last_call.op = "encode_signable"
       => last_call.ret =
              Signable(last_call.seq, last_call.value, last_call.salt)

\* C17 happens: encode_signable was called with a negative sequence number
\* of two digits, the value "Hello world!" and the salt "foobar".
C17_Witness ==
    /\ last_call.op = "encode_signable"
    /\ last_call.seq < -9
    /\ last_call.value = HelloWorld
    /\ last_call.salt = Some(Foobar)
    /\ Len(last_call.ret) = 42

\* C18: what a tick reports done is what the ticking of the queries finds
\* before the datagram is read, whatever the datagram is; when the
\* datagram is read, every iterative query reported done has left the map
\* and is in the cache, the put query of a finished GET has been handed
\* the responders, and every put query reported done has left the map; the
\* datagram is handled on the engine so cleaned up, it is no reply the
\* socket passes for a request of a query reported done, and the
\* query_response of the tick is of no query reported done.
C18_DoneBeforeDatagram ==
    [][last_call'.op = "tick"
       => LET report == last_call'.ret
              datagram == last_call'.datagram
              done == tick_cleanup(Engine, 0)
              read == tick_receive(
                          periodic_node_maintainance(done.s, {}, {}),
                          datagram, last_call'.handled)
          IN /\ report.done_get_queries = done.done_get_queries
             /\ report.done_put_queries = done.done_put_queries
             /\ report.done_find_node_queries = done.done_find_node_queries
             /\ \A t \in DoneIterative(report) :
                    /\ t \in DOMAIN iterative_queries
                    /\ t \notin DOMAIN done.s.iterative_queries
                    /\ Cardinality(DoneIterative(report))
                           <= MAX_CACHED_ITERATIVE_QUERIES
                       => Lru_contains(done.s.cached_iterative_queries, t)
                    /\ IsSome(datagram) /\ Unwrap(datagram).y # "q"
                       => ~ /\ Unwrap(datagram).tid \in socket.inflight_requests
                            /\ Unwrap(datagram).tid \in
                                   iterative_queries[t].inflight_requests
                    /\ IsSome(report.query_response)
                       => Unwrap(report.query_response)[1] # t
             /\ \A t \in Range(report.done_get_queries) :
                    t \in DOMAIN put_queries => StartsOf(done.s.log, t) # {}
             /\ \A i \in DOMAIN report.done_put_queries :
                    report.done_put_queries[i].id \notin DOMAIN done.s.put_queries
             /\ last_table_ping = "now"
                => /\ iterative_queries' = read.iterative_queries
                   /\ put_queries' = read.put_queries
                   /\ report.query_response = read.ret]_vars

\* C18 happens: the last tick reported a GET done and started the put that
\* waited for it, then read a request for which the server handler asked
\* for a lookup of the same target, and launched a new query for it.
C18_Witness ==
    /\ last_call.op = "tick"
    /\ IsSome(last_call.datagram)
    /\ Unwrap(last_call.datagram).y = "q"
    /\ last_call.handled.body.kind = "GetPeers"
    /\ \E t \in Range(last_call.ret.done_get_queries) :
           /\ StartsOf(log, t) # {}
           /\ t \in DOMAIN iterative_queries
           /\ iterative_queries[t].request.request_type.kind = "GetPeers"

\* ---------------------------------------------------------------------- C21

\* C21: whenever the routing table is empty when the periodic maintenance of
\* a tick runs, an iterative query whose target is the engine's id is active
\* right after the maintenance, and still when the tick returns: an engine
\* whose table is empty has its self-lookup active by the end of the next
\* tick.  The cleanup before the maintenance leaves the routing table alone.
C21_EmptyTableSelfLookup ==
    [][last_call'.op = "tick" =>
           LET done == tick_cleanup(Engine, 0).s
               kept == periodic_node_maintainance(done, {}, {})
           IN /\ done.routing_table = routing_table
              /\ RoutingTable_is_empty(routing_table) =>
                     /\ id(done) \in DOMAIN kept.iterative_queries
                     /\ kept.iterative_queries[id(done)].target = id(done)
                     /\ id(done) \in DOMAIN iterative_queries'
                     /\ routing_table'.id \in DOMAIN iterative_queries']_vars

\* A tick has returned with the self-lookup active and the routing table
\* empty, while the cache holds an earlier self-lookup that had met a node:
\* the node was added to the table then, and was dropped as stale since.
C21_Witness ==
    /\ last_call.op = "tick"
    /\ RoutingTable_is_empty(routing_table)
    /\ routing_table.id \in DOMAIN iterative_queries
    /\ Lru_contains(cached_iterative_queries, routing_table.id)
    /\ Lru_peek(cached_iterative_queries, routing_table.id).dht_size_estimate > 0

\* ---------------------------------------------------------------------- C22

\* The engine of a tick when it reads the socket: after the cleanup and the
\* periodic maintenance, no table ping being due.
BeforeReceive == periodic_node_maintainance(tick_cleanup(Engine, 0).s, {}, {})

\* The step is a tick that read the message m, a response or an error.
TickRead(m) ==
    /\ last_call'.op = "tick"
    /\ last_call'.datagram = Some(m)
    /\ m.y \in {"r", "e"}

\* C22: a node enters the routing table only in a tick that handles a
\* response or error which names its author, and whose transaction id is in
\* flight for an active iterative query and for no put query; the node is
\* the sender.  So requests, messages matched to a put query or to no query,
\* and calls of get and put add no node.
C22_NodesAddedByQueryResponses ==
    [][\A node \in routing_table'.nodes \ routing_table.nodes :
           /\ last_call'.op = "tick"
           /\ IsSome(last_call'.datagram)
           /\ LET m == Unwrap(last_call'.datagram)
              IN /\ TickRead(m)
                 /\ ~m.read_only
                 /\ IsSome(m.author_id)
                 /\ node = m.from
                 /\ socket_inflight(BeforeReceive, m.tid)
                 /\ IsSome(find_iterative_query(BeforeReceive, m.tid))
                 /\ ~IsSome(find_put_query(BeforeReceive, m.tid))]_vars

\* A tick has handled a response to a query's request and its sender is in
\* the routing table, while a put query waits for its nodes to answer.
C22_Witness ==
    /\ last_call.op = "tick"
    /\ IsSome(last_call.datagram)
    /\ Unwrap(last_call.datagram).y = "r"
    /\ Unwrap(last_call.datagram).from \in routing_table.nodes
    /\ \E t \in DOMAIN iterative_queries :
           Unwrap(last_call.datagram).tid \in iterative_queries[t].inflight_requests
    /\ \E t \in DOMAIN put_queries : PutQuery_started(put_queries[t])

\* ---------------------------------------------------------------------- C23

\* The engine of a tick after the cleanup and the periodic maintenance, for
\* the size estimate and the stale and due nodes the tick meets.
AfterMaintenance(estimate, stale, due) ==
    periodic_node_maintainance(tick_cleanup(Engine, estimate).s, stale, due)

\* No query that is active when the socket is read lists the transaction id
\* of m: a query started by the maintenance of the same tick lists ids that
\* were not in use before.
Unmatched(m) ==
    /\ ~IsSome(find_put_query(tick_cleanup(Engine, 1).s, m.tid))
    /\ ~IsSome(find_iterative_query(tick_cleanup(Engine, 1).s, m.tid))

\* C23: a response or error whose transaction id no active put or iterative
\* query lists is dropped without effect: the routing table, the queries,
\* the cache, the sum of the estimates, public_address and firewalled are
\* as the maintenance of the tick left them and query_response is None.
C23_UnmatchedReplyDropped ==
    [][\A m \in {x \in IF last_call'.op = "tick"
                        THEN Range(last_call'.datagram) ELSE {} :
                      TickRead(x) /\ Unmatched(x)} :
           /\ last_call'.ret.query_response = None
           /\ \E stale \in SUBSET routing_table.nodes :
              \E due \in SUBSET routing_table.nodes :
                  LET kept == AfterMaintenance(1, stale, due)
                  IN /\ routing_table' = kept.routing_table
                     /\ iterative_queries' = kept.iterative_queries
                     /\ put_queries' = kept.put_queries
                     /\ cached_iterative_queries' = kept.cached_iterative_queries
                     /\ dht_size_estimates_sum' = kept.dht_size_estimates_sum
                     /\ public_address' = kept.public_address
                     /\ firewalled' = kept.firewalled
                     /\ sent' = kept.sent]_vars

\* A tick has read the answer of a node to a ping of the table maintenance:
\* the socket had the ping in flight and no query lists it; the node has
\* been dropped from the table as stale in the meantime.
C23_Witness ==
    /\ last_call.op = "tick"
    /\ IsSome(last_call.datagram)
    /\ LET m == Unwrap(last_call.datagram)
       IN /\ m.y = "r"
          /\ ~m.read_only
          /\ IsSome(m.author_id)
          /\ m.tid.n <= MaxTid
          /\ m.tid.body.request_type.kind = "Ping"
          /\ m.from \notin routing_table.nodes

\* ---------------------------------------------------------------------- C24

\* The step is a tick that read the request m, for which the server handler
\* returns h when it is asked.
TickServes(m, h) ==
    /\ last_call'.op = "tick"
    /\ last_call'.datagram = Some(m)
    /\ m.y = "q"
    /\ last_call'.handled = h

\* The requests a step reads, each with the server handler's result.
Served ==
    IF last_call'.op = "tick"
    THEN {x \in Range(last_call'.datagram) \X {last_call'.handled} :
              TickServes(x[1], x[2])}
    ELSE {}

\* The reply the engine owes the sender of m: the handler's error or
\* response under the transaction id of m.
ReplyTo(m, h) == [to |-> m.from, y |-> h.y, body |-> h.body, tid |-> m.tid]

\* The engine b after the dispatch of the handler's result h for m, as the
\* claim has it.
Dispatched(b, m, h) ==
    IF h.y \in {"r", "e"} THEN [b EXCEPT !.sent = Append(@, ReplyTo(m, h))]
    ELSE IF h.body.kind = "Ping" THEN b
    ELSE IF h.body.kind = "Put" THEN put(b, h.body.put_request_type)
    ELSE get(b, h.body, h.extra_nodes)

\* The fields of the engine and the datagrams sent are those of s.
Leaves(s) ==
    /\ bootstrap' = s.bootstrap
    /\ socket' = s.socket
    /\ routing_table' = s.routing_table
    /\ last_table_refresh' = s.last_table_refresh
    /\ last_table_ping' = s.last_table_ping
    /\ cached_iterative_queries' = s.cached_iterative_queries
    /\ iterative_queries' = s.iterative_queries
    /\ put_queries' = s.put_queries
    /\ dht_size_estimates_sum' = s.dht_size_estimates_sum
    /\ public_address' = s.public_address
    /\ firewalled' = s.firewalled
    /\ sent' = s.sent

\* C24: in server mode the handler's result for a request is dispatched so:
\* an error or a response goes back to the requester under the request's
\* transaction id; a follow-up Put goes to put; a follow-up Ping sends
\* nothing and creates no query; any other follow-up request goes to get
\* with the handler's extra nodes.  The test for a ping from the engine's
\* own address comes after: it acts on the engine the dispatch left.
C24_ServerDispatch ==
    [][\A x \in Served :
           LET m == x[1]
               h == x[2]
               d == Dispatched(BeforeReceive, m, h)
               is_ping == m.body.request_type.kind = "Ping"
           IN server_mode(BeforeReceive) =>
                  /\ Leaves(check_own_ping(d, m.from, is_ping))
                  /\ h.y \in {"r", "e"} =>
                         /\ Len(sent') > Len(BeforeReceive.sent)
                         /\ sent'[Len(BeforeReceive.sent) + 1] = ReplyTo(m, h)
                  /\ h.y = "q" =>
                         \A i \in DOMAIN sent' : sent'[i].y = "q"
                  /\ h.y = "q" /\ h.body.kind = "Ping" =>
                         Leaves(check_own_ping(BeforeReceive, m.from, is_ping))]_vars

\* A server has handled a ping from its public address for which the
\* handler asked for a lookup: the lookup was started under the id the
\* engine had, and the id was renewed for the address afterwards.
C24_Witness ==
    /\ last_call.op = "tick"
    /\ IsSome(last_call.datagram)
    /\ socket.server_mode
    /\ LET m == Unwrap(last_call.datagram)
           h == last_call.handled
       IN /\ m.y = "q"
          /\ m.body.request_type.kind = "Ping"
          /\ public_address = Some(m.from)
          /\ h.y = "q"
          /\ h.body.kind = "GetPeers"
          /\ h.body.target \in DOMAIN iterative_queries
          /\ routing_table.id = Id_from_ipv4(m.from)
          /\ iterative_queries[h.body.target].request.requester_id
                 # routing_table.id
          /\ routing_table.id \in DOMAIN iterative_queries

\* ---------------------------------------------------------------------- C25

\* C25: a query leaves the engine in the tick that reports it: after a tick
\* no target of done_get_queries or done_find_node_queries has an iterative
\* query, no target of done_put_queries has a put query, and every
\* iterative or put query the tick removed is listed in its report.
C25_ReportedQueriesGone ==
    [][last_call'.op = "tick"
       => LET report == last_call'.ret
              done_put == {e.id : e \in Range(report.done_put_queries)}
          IN /\ DoneIterative(report) \cap DOMAIN iterative_queries' = {}
             /\ done_put \cap DOMAIN put_queries' = {}
             /\ DOMAIN iterative_queries \ DOMAIN iterative_queries'
                    \subseteq DoneIterative(report)
             /\ DOMAIN put_queries \ DOMAIN put_queries'
                    \subseteq done_put]_vars

\* ---------------------------------------------------------------------- C26

\* The sum of the dht_size_estimate fields of the entries of a cache.
RECURSIVE SumOfEstimates(_)
SumOfEstimates(cache) ==
    IF cache = <<>> THEN 0
    ELSE Head(cache).value.dht_size_estimate + SumOfEstimates(Tail(cache))

\* C26: dht_size_estimates_sum is the sum of the dht_size_estimate fields of
\* the cached queries, whether entries were added, evicted or cached again
\* for a target already in the cache, so that dht_size_estimate() is their
\* average.
C26_SumOfCachedEstimates ==
    dht_size_estimates_sum = SumOfEstimates(cached_iterative_queries)

\* ---------------------------------------------------------------------- C27

\* C27: start is called at most once for a put query, over put() and all
\* ticks: no call of PutQuery::start finds a put that has started before,
\* from the cache or from an earlier GET, so that no responder gets the
\* store request of a put twice.
C27_PutStartedOnce ==
    \A i \in DOMAIN log :
        log[i].call = "PutQuery::start" => ~log[i].started

\* ---------------------------------------------------------------------- C28

\* C28: the request of every active iterative query carries the engine's
\* current id as requester_id, also after the id was renewed for a public
\* address.
C28_RequesterIdIsCurrent ==
    \A t \in DOMAIN iterative_queries :
        iterative_queries[t].request.requester_id = routing_table.id

\* ---------------------------------------------------------------------- C29

\* The responses and errors flagged read_only that a step reads.
ReadOnlyRead ==
    IF last_call'.op = "tick"
    THEN {x \in Range(last_call'.datagram) : TickRead(x) /\ x.read_only}
    ELSE {}

\* C29: a response or error flagged read_only is ignored, also when its
\* transaction id is in flight for an active put or iterative query: the
\* put and iterative queries, the routing table and every other field are
\* as the tick had them when the socket gave the message (no success or
\* error counted, no candidate, responder, vote or response noted, no
\* node added), and query_response is None.
C29_ReadOnlyIgnored ==
    [][\A m \in ReadOnlyRead :
           /\ last_call'.ret.query_response = None
           /\ Leaves(socket_recv_from(BeforeReceive, Some(m)).s)
           /\ put_queries' = BeforeReceive.put_queries
           /\ iterative_queries' = BeforeReceive.iterative_queries
           /\ routing_table' = BeforeReceive.routing_table]_vars

\* A tick has read the read_only answer of a node to the store request of a
\* put query: the socket no longer waits for it, the put counts no node as
\* having stored, the node is not in the routing table, and an iterative
\* query without responders is active.
C29_Witness ==
    /\ last_call.op = "tick"
    /\ IsSome(last_call.datagram)
    /\ LET m == Unwrap(last_call.datagram)
       IN /\ m.y = "r"
          /\ m.read_only
          /\ m.from \notin routing_table.nodes
          /\ m.tid \notin socket.inflight_requests
          /\ \E t \in DOMAIN put_queries :
                 /\ PutQuery_inflight(put_queries[t], m.tid)
                 /\ put_queries[t].stored_at = 0
          /\ \E t \in DOMAIN iterative_queries :
                 iterative_queries[t].responders = {}

\* ---------------------------------------------------------------------- C30

\* The request m is a ping from the public address of the engine s.
OwnPingTo(s, m) ==
    /\ m.body.request_type.kind = "Ping"
    /\ s.public_address = Some(m.from)

\* C30: while server_mode is false, a request has no effect that depends on
\* the server handler: no response or error is sent to the requester, and
\* no put or get query is made for what the handler would ask.  A ping from
\* the engine's public address clears firewalled and renews an id that is
\* not valid for the address; any other request leaves the engine as it
\* was.
C30_ClientIgnoresRequests ==
    [][\A x \in Served :
           LET m == x[1]
               b == BeforeReceive
           IN ~server_mode(b) =>
                  /\ \A i \in DOMAIN sent' : sent'[i].y = "q"
                  /\ IF OwnPingTo(b, m)
                     THEN /\ Leaves(check_own_ping(b, m.from, TRUE))
                          /\ ~firewalled'
                          /\ put_queries' = b.put_queries
                          /\ DOMAIN iterative_queries' \ DOMAIN b.iterative_queries
                                 \subseteq {Id_from_ipv4(m.from)}
                     ELSE Leaves(b)]_vars

\* A client has read a ping from its public address for which the handler
\* of a server would ask for a lookup: firewalled is cleared, the id is the
\* one of the address, and there is no query for the handler's target.
C30_Witness ==
    /\ last_call.op = "tick"
    /\ IsSome(last_call.datagram)
    /\ ~socket.server_mode
    /\ LET m == Unwrap(last_call.datagram)
           h == last_call.handled
       IN /\ m.y = "q"
          /\ m.body.request_type.kind = "Ping"
          /\ public_address = Some(m.from)
          /\ h.y = "q"
          /\ h.body.kind = "GetPeers"
          /\ h.body.target \notin DOMAIN iterative_queries
          /\ ~firewalled
          /\ routing_table.id = Id_from_ipv4(m.from)
          /\ routing_table.id \in DOMAIN iterative_queries

====
